---- MODULE Spec2Model ----
(***************************************************************************)
(* The amount engine of ledger (src/amount.cc): reference-counted big      *)
(* integer cells with a decimal scale, the commodity registry, and the     *)
(* Amount operations (assignment, parse, +=, -=, *=, /=, negate, round,    *)
(* comparison, printing, valuation, the binary cache).                     *)
(*                                                                         *)
(* A client program owns the Amount objects a, b and c.  It first gives    *)
(* each of them a value, in that order (or leaves it default-constructed), *)
(* and then applies up to MaxOps operations to them (Spec).  More clients  *)
(* read amounts from text (SpecParse), value an Amount through the price   *)
(* history (SpecValue), save and load the binary cache (SpecBinary), share *)
(* quantities between Amounts (SpecShare), load prices from the cache and  *)
(* clean the histories (SpecClean) and save in any order (SpecWrite).      *)
(*                                                                         *)
(* Texts are tuples of one-character strings; symbols and printed amounts  *)
(* are strings.                                                            *)
(***************************************************************************)
EXTENDS Integers, Sequences, FiniteSets

VARIABLES cells, amts, comms, setup, nops, last,
          updater, stream, data, bigints, bigints_index, bigints_count

\* The statics of valuation and of the binary cache: commodity_t::updater, the
\* bytes written to the cache, the read pointer into them, the arena of cells
\* read from it, and the counters of the cells written.
statics == <<updater, stream, data, bigints, bigints_index, bigints_count>>

vars == <<cells, amts, comms, setup, nops, last, statics>>

(***************************************************************************)
(* Bounds of the exploration.                                              *)
(***************************************************************************)
\* Operations applied after the three Amounts were set up.
MaxOps == 1
\* Largest magnitude a cell may hold; an operation whose result (or an
\* intermediate value of it) would exceed it is not explored.
MaxMag == 999999999

(***************************************************************************)
(* Program constants.                                                      *)
(***************************************************************************)
\* The six digits of internal headroom of *= and /=.
Headroom == 6

Slots == {"a", "b", "c"}
\* "tmp" is the local `amount_t temp' of +=, -= and the comparisons and the
\* Amount a call returns; "price" is the local of commodity_t::value, "amt"
\* and "prod" are the price and the product in amount_t::value.
AllSlots == Slots \cup {"tmp", "price", "amt", "prod"}

\* A null bigint_t pointer, and the address of the static true_value.
NULL == 0
TrueCell == 1
\* A null commodity_t pointer.  A commodity is identified by its symbol, the
\* key of commodity_t::commodities; the null commodity has the symbol "".
NoCommodity == "<NULL>"
NullSymbol == ""

SUFFIXED == "SUFFIXED"
SEPARATED == "SEPARATED"
EUROPEAN == "EUROPEAN"
THOUSANDS == "THOUSANDS"
NOMARKET == "NOMARKET"

(***************************************************************************)
(* GMP integer helpers.                                                    *)
(***************************************************************************)
Abs(n) == IF n < 0 THEN -n ELSE n

Sgn(n) == IF n < 0 THEN -1 ELSE IF n > 0 THEN 1 ELSE 0

Max(m, n) == IF m >= n THEN m ELSE n

\* mpz_ui_pow_ui(divisor, 10, k)
Pow10(k) == 10 ^ k

\* mpz_tdiv_q: the quotient truncated toward zero.
TDivQ(n, d) == Sgn(n) * Sgn(d) * (Abs(n) \div Abs(d))

\* mpz_tdiv_r: the remainder of the truncated division (the sign of n).
TDivR(n, d) == n - d * TDivQ(n, d)

\* Whether n * 10^k stays within the explored magnitudes.
ScaleFits(n, k) ==
  IF k > 9 THEN FALSE ELSE IF n = 0 THEN TRUE ELSE Abs(n) <= MaxMag \div Pow10(k)

\* Whether m * n stays within the explored magnitudes.
MulFits(m, n) ==
  IF m = 0 THEN TRUE ELSE IF n = 0 THEN TRUE ELSE Abs(m) <= MaxMag \div Abs(n)

\* floor(n * 10^k / d) for n >= 0, d > 0, by long division: the digits of the
\* quotient one power of ten at a time, so that the product n * 10^k (which
\* GMP holds in full) is never formed.
RECURSIVE LongDiv(_, _, _, _)
LongDiv(q, r, k, d) ==
  IF k = 0 THEN q
  ELSE LongDiv(q * 10 + (r * 10) \div d, (r * 10) % d, k - 1, d)

\* Whether LongDiv's quotient stays within the explored magnitudes.
LongDivFits(n, k, d) ==
  /\ k <= 9
  /\ Abs(d) <= MaxMag \div 10
  /\ (Abs(n) \div Abs(d)) + 1 <= MaxMag \div Pow10(k)

\* mpz_mul(q, q, 10^k) followed by mpz_tdiv_q(q, q, d), d # 0.
MulPow10TDivQ(n, k, d) ==
  Sgn(n) * Sgn(d)
    * LongDiv(Abs(n) \div Abs(d), Abs(n) % Abs(d), k, Abs(d))

\* mpz_round(out, value, value_prec, round_prec), value_prec > round_prec.
mpz_round(value, value_prec, round_prec) ==
  LET D    == Pow10(value_prec - round_prec)
      r    == TDivR(value, D)
      half == (D \div 10) * 5
      out  == IF r < 0
              THEN IF r < -half THEN value + (0 - (D + r)) ELSE value - r
              ELSE IF r >= half THEN value + (D - r) ELSE value - r
  IN  TDivQ(out, D)

(***************************************************************************)
(* The heap of bigint_t cells.  A world w is [cells, amts, comms]: cells   *)
(* is the sequence of every cell ever allocated (a cell's address is its   *)
(* position, addresses are never reused), amts the Amount objects, comms   *)
(* the registry.                                                           *)
(***************************************************************************)
\* bigint_t(): prec(0), flags(0), ref(1), index(0), mpz_init(val).
NewCell ==
  [val |-> 0, prec |-> 0, ref |-> 1, bulk |-> FALSE, index |-> 0, live |-> TRUE]

\* bigint_t(const bigint_t& other): the value and prec of other.
CopyCell(other) ==
  [val |-> other.val, prec |-> other.prec, ref |-> 1, bulk |-> FALSE,
   index |-> 0, live |-> TRUE]

Quantity(w, x) == w.amts[x].quantity

Cell(w, x) == w.cells[Quantity(w, x)]

SetCell(w, q, c) == [w EXCEPT !.cells[q] = c]

\* `new bigint_t' / `new bigint_t(*quantity)' stored into x.quantity.
AllocInto(w, x, c) ==
  [w EXCEPT !.cells = Append(@, c), !.amts[x].quantity = Len(w.cells) + 1]

\* amount_t::_release: the cell is destroyed when its count reaches zero
\* (deleted, or destroyed in place when bulk-allocated); x.quantity is left.
_release(w, x) ==
  LET q == Quantity(w, x)
      n == w.cells[q].ref - 1
  IN  [w EXCEPT !.cells[q].ref = n,
                !.cells[q].live = IF n = 0 THEN FALSE ELSE @]

\* amount_t::_init: a cell that x alone owns is kept as it is.
_init(w, x) ==
  IF Quantity(w, x) = NULL THEN AllocInto(w, x, NewCell)
  ELSE IF Cell(w, x).ref > 1 THEN AllocInto(_release(w, x), x, NewCell)
  ELSE w

\* _dup leaving the shared cell in place.
DupInPlace(w, x) == w

\* amount_t::_dup: copy on write.
_dup(w, x) ==
  IF Cell(w, x).ref > 1
  THEN AllocInto(_release(w, x), x, CopyCell(Cell(w, x)))
  ELSE w

\* _copy taking the pointer without counting the new reference.
CopyUncounted(w, x, y) ==
  LET w1 == IF Quantity(w, x) # Quantity(w, y)
            THEN LET r == IF Quantity(w, x) # NULL THEN _release(w, x) ELSE w
                 IN  [r EXCEPT !.amts[x].quantity = Quantity(w, y)]
            ELSE w
  IN  [w1 EXCEPT !.amts[x].commodity = w.amts[y].commodity]

\* amount_t::_copy
_copy(w, x, y) ==
  LET w1 == IF Quantity(w, x) # Quantity(w, y)
            THEN LET r == IF Quantity(w, x) # NULL THEN _release(w, x) ELSE w
                     q == Quantity(w, y)
                 IN  [r EXCEPT !.amts[x].quantity = q,
                               !.cells[q].ref = @ + 1]
            ELSE w
  IN  [w1 EXCEPT !.amts[x].commodity = w.amts[y].commodity]

\* amount_t::_clear
_clear(w, x) ==
  [_release(w, x) EXCEPT !.amts[x] =
      [quantity |-> NULL, commodity |-> NoCommodity]]

\* amount_t::_resize
_resize(w, x, prec) ==
  IF Quantity(w, x) = NULL \/ prec = Cell(w, x).prec THEN w
  ELSE LET w1 == _dup(w, x)
           q  == Quantity(w1, x)
           c  == w1.cells[q]
       IN  IF prec < c.prec
           THEN SetCell(w1, q, [c EXCEPT !.val = TDivQ(c.val, Pow10(c.prec - prec)),
                                         !.prec = prec])
           ELSE SetCell(w1, q, [c EXCEPT !.val = c.val * Pow10(prec - c.prec),
                                         !.prec = prec])

\* `amount_t temp = amt;' the copy constructor into the local temp.
TempCopy(w, y) == _copy(w, "tmp", y)

\* The destructor of the local temp at the end of its block.
TempDestroy(w) ==
  IF Quantity(w, "tmp") = NULL THEN w
  ELSE [_release(w, "tmp") EXCEPT !.amts["tmp"] =
           [quantity |-> NULL, commodity |-> NoCommodity]]


Present(w, x) == Quantity(w, x) # NULL

\* commodity->precision of x's commodity.
Precision(w, x) == w.comms[w.amts[x].commodity].precision

Ok(w) == [w |-> w, err |-> ""]

Throw(w, e) == [w |-> w, err |-> e]

(***************************************************************************)
(* Arithmetic.  Each operator returns the world after the call and the     *)
(* error it threw ("" when it returned normally).                          *)
(***************************************************************************)
\* The three precision branches shared by += (sign = 1) and -= (sign = -1):
\* mpz_add / mpz_sub on x's cell, the operand read when the call is made.
Combine(w, x, y, sign) ==
  LET xp == Cell(w, x).prec
      yp == Cell(w, y).prec
  IN  IF xp = yp
      THEN [w EXCEPT !.cells[Quantity(w, x)].val = @ + sign * Cell(w, y).val]
      ELSE IF xp < yp
      THEN LET w1 == _resize(w, x, yp)
           IN  [w1 EXCEPT !.cells[Quantity(w1, x)].val =
                              @ + sign * Cell(w1, y).val]
      ELSE LET w1 == _resize(TempCopy(w, y), "tmp", xp)
               w2 == [w1 EXCEPT !.cells[Quantity(w1, x)].val =
                                    @ + sign * Cell(w1, "tmp").val]
           IN  TempDestroy(w2)

OpAddNoCheck(w, x, y) ==
  IF ~Present(w, y) THEN Ok(w)
  ELSE IF ~Present(w, x) THEN Ok(_copy(w, x, y))
  ELSE Ok(Combine(_dup(w, x), x, y, 1))

OpAddTruncating(w, x, y) ==
  IF ~Present(w, y) THEN Ok(w)
  ELSE IF ~Present(w, x) THEN Ok(_copy(w, x, y))
  ELSE LET w1 == _dup(w, x)
       IN  IF w1.amts[x].commodity # w1.amts[y].commodity
           THEN Throw(w1, "CommodityMismatch")
           ELSE LET w2 == _resize(TempCopy(w1, y), "tmp", Cell(w1, x).prec)
                IN  Ok(TempDestroy(
                      [w2 EXCEPT !.cells[Quantity(w2, x)].val =
                                     @ + Cell(w2, "tmp").val]))

\* amount_t::operator+=
OpAdd(w, x, y) ==
  IF ~Present(w, y) THEN Ok(w)
  ELSE IF ~Present(w, x) THEN Ok(_copy(w, x, y))
  ELSE LET w1 == _dup(w, x)
       IN  IF w1.amts[x].commodity # w1.amts[y].commodity
           THEN Throw(w1, "CommodityMismatch")
           ELSE Ok(Combine(w1, x, y, 1))

OpSubKeepsSign(w, x, y) ==
  IF ~Present(w, y) THEN Ok(w)
  ELSE IF ~Present(w, x)
  THEN LET w1 == AllocInto(w, x, CopyCell(Cell(w, y)))
       IN  Ok([w1 EXCEPT !.amts[x].commodity = w.amts[y].commodity])
  ELSE LET w1 == _dup(w, x)
       IN  IF w1.amts[x].commodity # w1.amts[y].commodity
           THEN Throw(w1, "CommodityMismatch")
           ELSE Ok(Combine(w1, x, y, -1))

\* amount_t::operator-=
OpSub(w, x, y) ==
  IF ~Present(w, y) THEN Ok(w)
  ELSE IF ~Present(w, x)
  THEN LET w1 == AllocInto(w, x, CopyCell(Cell(w, y)))
           w2 == [w1 EXCEPT !.amts[x].commodity = w.amts[y].commodity]
       IN  Ok([w2 EXCEPT !.cells[Quantity(w2, x)].val = -@])
  ELSE LET w1 == _dup(w, x)
       IN  IF w1.amts[x].commodity # w1.amts[y].commodity
           THEN Throw(w1, "CommodityMismatch")
           ELSE Ok(Combine(w1, x, y, -1))

\* The tail shared by *= and /=: round to precision + 6 when the scale
\* exceeds it.
CapScale(w, x) ==
  LET q   == Quantity(w, x)
      c   == w.cells[q]
      cap == Precision(w, x) + Headroom
  IN  IF c.prec > cap
      THEN SetCell(w, q, [c EXCEPT !.val = mpz_round(c.val, c.prec, cap),
                                   !.prec = cap])
      ELSE w

OpMulNoCap(w, x, y) ==
  IF ~Present(w, y) \/ ~Present(w, x) THEN Ok(w)
  ELSE LET w1 == _dup(w, x)
           q  == Quantity(w1, x)
           w2 == [w1 EXCEPT !.cells[q].val = @ * Cell(w1, y).val]
       IN  Ok([w2 EXCEPT !.cells[q].prec = @ + Cell(w2, y).prec])

\* amount_t::operator*=
OpMul(w, x, y) ==
  IF ~Present(w, y) \/ ~Present(w, x) THEN Ok(w)
  ELSE LET w1 == _dup(w, x)
           q  == Quantity(w1, x)
           w2 == [w1 EXCEPT !.cells[q].val = @ * Cell(w1, y).val]
           w3 == [w2 EXCEPT !.cells[q].prec = @ + Cell(w2, y).prec]
       IN  Ok(CapScale(w3, x))

\* The quotient of /=: x's cell is first multiplied by 10^k in place, then
\* divided by the divisor's cell as it is at that moment.  When the divisor is
\* x's own cell (a /= a on an unshared cell) the divisor is the product.
Quotient(w, x, y, k) ==
  IF Quantity(w, y) = Quantity(w, x) THEN 1
  ELSE MulPow10TDivQ(Cell(w, x).val, k, Cell(w, y).val)

\* Whether mpz_tdiv_q is handed a zero divisor (GMP then raises SIGFPE).
ZeroDivisor(w, x, y) == Cell(w, y).val = 0

OpDivHeadroomOnly(w, x, y) ==
  IF ~Present(w, x) THEN Ok(w)
  ELSE IF ~Present(w, y) THEN Throw(w, "DivideByZero")
  ELSE LET w1 == _dup(w, x)
           q  == Quantity(w1, x)
       IN  IF ZeroDivisor(w1, x, y) THEN Throw(w1, "SIGFPE")
           ELSE LET w2 == [w1 EXCEPT
                             !.cells[q].val = Quotient(w1, x, y, Headroom),
                             !.cells[q].prec = @ + Headroom]
                IN  Ok(CapScale(w2, x))

\* amount_t::operator/=
OpDiv(w, x, y) ==
  IF ~Present(w, x) THEN Ok(w)
  ELSE IF ~Present(w, y) THEN Throw(w, "DivideByZero")
  ELSE LET w1 == _dup(w, x)
           q  == Quantity(w1, x)
           k  == Cell(w1, y).prec + Headroom
       IN  IF ZeroDivisor(w1, x, y) THEN Throw(w1, "SIGFPE")
           ELSE LET w2 == [w1 EXCEPT !.cells[q].val = Quotient(w1, x, y, k),
                                     !.cells[q].prec = @ + Headroom]
                IN  Ok(CapScale(w2, x))

\* amount_t::negate
OpNegate(w, x) ==
  IF Present(w, x)
  THEN LET w1 == _dup(w, x)
       IN  Ok([w1 EXCEPT !.cells[Quantity(w1, x)].val = -@])
  ELSE Ok(w)

\* amount_t::operator=(const amount_t&)
OpAssign(w, x, y) ==
  IF x # y
  THEN IF Present(w, y) THEN Ok(_copy(w, x, y))
       ELSE IF Present(w, x) THEN Ok(_clear(w, x))
       ELSE Ok(w)
  ELSE Ok(w)

\* amount_t::operator=(const bool)
OpAssignBool(w, x, value) ==
  IF ~value
  THEN IF Present(w, x) THEN Ok(_clear(w, x)) ELSE Ok(w)
  ELSE LET w1 == [w EXCEPT !.amts[x].commodity = NullSymbol]
           w2 == IF Present(w1, x) THEN _release(w1, x) ELSE w1
       IN  Ok([w2 EXCEPT !.amts[x].quantity = TrueCell,
                         !.cells[TrueCell].ref = @ + 1])

\* amount_t::operator=(const int) and operator=(const unsigned int): _init()
\* keeps a cell that x alone owns, and only its value is set afterwards.
OpAssignInt(w, x, value) ==
  IF value = 0
  THEN IF Present(w, x) THEN Ok(_clear(w, x)) ELSE Ok(w)
  ELSE LET w1 == _init([w EXCEPT !.amts[x].commodity = NullSymbol], x)
       IN  Ok([w1 EXCEPT !.cells[Quantity(w1, x)].val = value])

\* amount_t::round(prec) const, leaving the rounded Amount in the local temp.
RoundToTemp(w, x, prec) ==
  IF ~Present(w, x) \/ Cell(w, x).prec <= prec
  THEN IF Present(w, x) THEN TempCopy(w, x) ELSE w
  ELSE LET w1 == _dup(TempCopy(w, x), "tmp")
           q  == Quantity(w1, "tmp")
           c  == w1.cells[q]
       IN  SetCell(w1, q, [c EXCEPT !.val = mpz_round(c.val, c.prec, prec),
                                    !.prec = prec])

\* x = x.round(prec): round, assign the returned temporary, destroy it.
OpRound(w, x, prec) ==
  LET w1 == RoundToTemp(w, x, prec)
  IN  Ok(TempDestroy(OpAssign(w1, x, "tmp").w))

(***************************************************************************)
(* Comparison.                                                             *)
(***************************************************************************)
OPS == {"<", "<=", ">", ">=", "=="}

\* `m OP n' on integers.
IntCmp(op, m, n) ==
  CASE op = "<"  -> m < n
    [] op = "<=" -> m <= n
    [] op = ">"  -> m > n
    [] op = ">=" -> m >= n
    [] op = "==" -> m = n

\* AMOUNT_CMP_INT(OP) with num == 0.
CmpZero(w, x, op) ==
  IF Present(w, x) THEN IntCmp(op, Sgn(Cell(w, x).val), 0) ELSE FALSE

AmountCmpAnyCommodity(w, x, y, op) ==
  IF ~Present(w, x) THEN CmpZero(w, y, ">")
  ELSE IF ~Present(w, y) THEN CmpZero(w, x, "<")
  ELSE LET p == Max(Cell(w, x).prec, Cell(w, y).prec)
       IN  IntCmp(op, Cell(w, x).val * Pow10(p - Cell(w, x).prec),
                      Cell(w, y).val * Pow10(p - Cell(w, y).prec))

\* AMOUNT_CMP_AMOUNT(OP): the value `x OP y' returns.  The local temp of the
\* two resizing branches is a copy that is resized and destroyed before the
\* return; it leaves x, y and their cells as they were.
AmountCmp(w, x, y, op) ==
  IF ~Present(w, x) THEN CmpZero(w, y, ">")
  ELSE IF ~Present(w, y) THEN CmpZero(w, x, "<")
  ELSE IF /\ w.amts[x].commodity # w.amts[y].commodity
          /\ w.amts[x].commodity # NullSymbol
          /\ w.amts[y].commodity # NullSymbol
  THEN FALSE
  ELSE IF Cell(w, x).prec = Cell(w, y).prec
  THEN IntCmp(op, Cell(w, x).val, Cell(w, y).val)
  ELSE IF Cell(w, x).prec < Cell(w, y).prec
  THEN LET w1 == _resize(TempCopy(w, x), "tmp", Cell(w, y).prec)
       IN  IntCmp(op, Cell(w1, "tmp").val, Cell(w1, y).val)
  ELSE LET w1 == _resize(TempCopy(w, y), "tmp", Cell(w, x).prec)
       IN  IntCmp(op, Cell(w1, x).val, Cell(w1, "tmp").val)

\* The heap after one comparison: the temp's cell was allocated and destroyed.
AmountCmpHeap(w, x, y) ==
  IF ~Present(w, x) \/ ~Present(w, y) THEN w
  ELSE IF /\ w.amts[x].commodity # w.amts[y].commodity
          /\ w.amts[x].commodity # NullSymbol
          /\ w.amts[y].commodity # NullSymbol
  THEN w
  ELSE IF Cell(w, x).prec = Cell(w, y).prec THEN w
  ELSE IF Cell(w, x).prec < Cell(w, y).prec
  THEN TempDestroy(_resize(TempCopy(w, x), "tmp", Cell(w, y).prec))
  ELSE TempDestroy(_resize(TempCopy(w, y), "tmp", Cell(w, x).prec))

(***************************************************************************)
(* Parsing.                                                                *)
(***************************************************************************)
Digits == <<"0", "1", "2", "3", "4", "5", "6", "7", "8", "9">>

IsDigit(c) == \E i \in 1..10 : Digits[i] = c

DigitValue(c) == (CHOOSE i \in 1..10 : Digits[i] = c) - 1

IsSpace(c) == c \in {" ", "\t", "\n"}

IsQuantityChar(c) == IsDigit(c) \/ c = "-" \/ c = "." \/ c = ","

IsSymbolChar(c) == ~IsSpace(c) /\ ~IsDigit(c) /\ c # "-" /\ c # "."

\* in.peek(); "EOF" past the end of the text.
Peek(text, i) == IF i > Len(text) THEN "EOF" ELSE text[i]

\* peek_next_nonws: the position of the first character that is not white.
SkipWs(text, i) ==
  CHOOSE j \in i..(Len(text) + 1) :
    /\ j = Len(text) + 1 \/ ~IsSpace(text[j])
    /\ \A k \in i..(j - 1) : IsSpace(text[k])

\* READ_INTO with the condition of parse_quantity: where the token ends.
QuantityEnd(text, i) ==
  CHOOSE j \in i..(Len(text) + 1) :
    /\ j = Len(text) + 1 \/ ~IsQuantityChar(text[j])
    /\ \A k \in i..(j - 1) : IsQuantityChar(text[k])

\* READ_INTO with the condition of an unquoted symbol.
SymbolEnd(text, i) ==
  CHOOSE j \in i..(Len(text) + 1) :
    /\ j = Len(text) + 1 \/ ~IsSymbolChar(text[j])
    /\ \A k \in i..(j - 1) : IsSymbolChar(text[k])

\* READ_INTO with the condition c != '"' (it also stops at a newline).
QuotedEnd(text, i) ==
  CHOOSE j \in i..(Len(text) + 1) :
    /\ j = Len(text) + 1 \/ text[j] \in {"\"", "\n"}
    /\ \A k \in i..(j - 1) : text[k] \notin {"\"", "\n"}

RECURSIVE Join(_)
Join(chars) ==
  IF chars = <<>> THEN "" ELSE Head(chars) \o Join(Tail(chars))

\* parse_quantity: the token and the position after it.
parse_quantity(text, i) ==
  LET b == SkipWs(text, i)
      e == QuantityEnd(text, b)
  IN  [value |-> SubSeq(text, b, e - 1), pos |-> e, err |-> ""]

\* parse_commodity: the symbol and the position after it.
parse_commodity(text, i) ==
  LET b == SkipWs(text, i)
  IN  IF Peek(text, b) = "\""
      THEN LET e == QuotedEnd(text, b + 1)
           IN  IF Peek(text, e) = "\""
               THEN [value |-> SubSeq(text, b + 1, e - 1), pos |-> e + 1,
                     err |-> ""]
               ELSE [value |-> SubSeq(text, b + 1, e - 1), pos |-> e,
                     err |-> "ParseError"]
      ELSE LET e == SymbolEnd(text, b)
           IN  [value |-> SubSeq(text, b, e - 1), pos |-> e, err |-> ""]

PositionsOfChar(quant, ch) == {i \in 1..Len(quant) : quant[i] = ch}

\* quant.rfind(ch): the last position of ch, 0 for npos.
RFind(quant, ch) ==
  IF \E i \in 1..Len(quant) : quant[i] = ch
  THEN CHOOSE i \in 1..Len(quant) :
         quant[i] = ch /\ \A j \in (i + 1)..Len(quant) : quant[j] # ch
  ELSE 0

\* The loop that removes commas and periods: a separator is skipped and the
\* character after it is copied whatever it is.
RECURSIVE StripSeparators(_, _)
StripSeparators(quant, i) ==
  IF i > Len(quant) THEN <<>>
  ELSE IF quant[i] \in {",", "."}
  THEN IF i + 1 > Len(quant) THEN <<>>
       ELSE <<quant[i + 1]>> \o StripSeparators(quant, i + 2)
  ELSE <<quant[i]>> \o StripSeparators(quant, i + 1)

RECURSIVE DigitsValue(_, _)
DigitsValue(chars, acc) ==
  IF chars = <<>> THEN acc
  ELSE DigitsValue(Tail(chars), acc * 10 + DigitValue(Head(chars)))

\* mpz_set_str(val, str, 10): ok is FALSE (and val is left alone) unless str
\* is an optional minus sign followed by one or more digits.
mpz_set_str(chars) ==
  LET neg  == chars # <<>> /\ Head(chars) = "-"
      body == IF neg THEN Tail(chars) ELSE chars
  IN  IF body # <<>> /\ \A i \in 1..Len(body) : IsDigit(body[i])
      THEN [ok |-> TRUE,
            val |-> IF neg THEN -DigitsValue(body, 0) ELSE DigitsValue(body, 0)]
      ELSE [ok |-> FALSE, val |-> 0]

\* commodity_t::check_symbol: a symbol with a blank, a digit, a minus sign or a
\* period is printed in double quotes.
check_symbol(symbol) ==
  \E i \in 1..Len(symbol) : ~IsSymbolChar(symbol[i])

\* commodity_t(symbol): precision 0, COMMODITY_STYLE_DEFAULTS, no history
\* (history maps a date to the Amount object stored under it).
NewCommodity(symbol) ==
  [precision |-> 0, flags |-> {}, quote |-> check_symbol(symbol),
   history |-> <<>>]

\* find_commodity constructing a commodity on every call that may create one,
\* whether or not the symbol is known.
find_commodity_always_new(registry, symbol, auto_create) ==
  IF auto_create
  THEN [registry |-> [s \in DOMAIN registry \cup {Join(symbol)} |->
                        IF s = Join(symbol) THEN NewCommodity(symbol)
                        ELSE registry[s]],
        found |-> Join(symbol)]
  ELSE [registry |-> registry,
        found |-> IF Join(symbol) \in DOMAIN registry THEN Join(symbol)
                  ELSE NoCommodity]

\* commodity_t::find_commodity(symbol, auto_create): the registry after the
\* call and the commodity returned (its key; NoCommodity for NULL).
find_commodity(registry, symbol, auto_create) ==
  IF Join(symbol) \in DOMAIN registry
  THEN [registry |-> registry, found |-> Join(symbol)]
  ELSE IF auto_create
  THEN [registry |-> [s \in DOMAIN registry \cup {Join(symbol)} |->
                        IF s = Join(symbol) THEN NewCommodity(symbol)
                        ELSE registry[s]],
        found |-> Join(symbol)]
  ELSE [registry |-> registry, found |-> NoCommodity]

\* QuantityStyle with find() in the place of rfind(): the first comma and the
\* first period decide.
QuantityStyleFirst(quant) ==
  LET first_comma  == IF PositionsOfChar(quant, ",") = {} THEN 0
                      ELSE CHOOSE i \in PositionsOfChar(quant, ",") :
                             \A j \in PositionsOfChar(quant, ",") : i <= j
      first_period == IF PositionsOfChar(quant, ".") = {} THEN 0
                      ELSE CHOOSE i \in PositionsOfChar(quant, ".") :
                             \A j \in PositionsOfChar(quant, ".") : i <= j
  IN  IF first_comma # 0 /\ first_period # 0
      THEN IF first_comma > first_period
           THEN [flags |-> {THOUSANDS, EUROPEAN},
                 prec |-> Len(quant) - first_comma]
           ELSE [flags |-> {THOUSANDS}, prec |-> Len(quant) - first_period]
      ELSE IF first_comma # 0
      THEN [flags |-> {EUROPEAN}, prec |-> Len(quant) - first_comma]
      ELSE IF first_period # 0
      THEN [flags |-> {}, prec |-> Len(quant) - first_period]
      ELSE [flags |-> {}, prec |-> 0]

\* The style flags and the scale that the separators of the token give.
QuantityStyle(quant) ==
  LET last_comma  == RFind(quant, ",")
      last_period == RFind(quant, ".")
  IN  IF last_comma # 0 /\ last_period # 0
      THEN IF last_comma > last_period
           THEN [flags |-> {THOUSANDS, EUROPEAN},
                 prec |-> Len(quant) - last_comma]
           ELSE [flags |-> {THOUSANDS}, prec |-> Len(quant) - last_period]
      ELSE IF last_comma # 0
      THEN [flags |-> {EUROPEAN}, prec |-> Len(quant) - last_comma]
      ELSE IF last_period # 0
      THEN [flags |-> {}, prec |-> Len(quant) - last_period]
      ELSE [flags |-> {}, prec |-> 0]

\* The symbol, the token and the flags read from the text.
Tokens(text) ==
  LET c == Peek(text, SkipWs(text, 1))
  IN  IF IsDigit(c) \/ c = "." \/ c = "-"
      THEN LET q == parse_quantity(text, 1)
           IN  IF q.pos <= Len(text) /\ text[q.pos] # "\n"
               THEN LET s == parse_commodity(text, q.pos)
                    IN  [quant |-> q.value, symbol |-> s.value, err |-> s.err,
                         flags |-> (IF IsSpace(text[q.pos]) THEN {SEPARATED}
                                    ELSE {}) \cup {SUFFIXED}]
               ELSE [quant |-> q.value, symbol |-> <<>>, err |-> "",
                     flags |-> {}]
      ELSE LET s == parse_commodity(text, 1)
               q == parse_quantity(text, s.pos)
           IN  [quant |-> q.value, symbol |-> s.value, err |-> s.err,
                flags |-> IF IsSpace(Peek(text, s.pos)) THEN {SEPARATED}
                          ELSE {}]

\* amount_t::parse storing the scale read as the commodity's precision whatever
\* the precision was.
ParseSetsPrecision(w, x, text) ==
  LET w1  == _init(w, x)
      t   == Tokens(text)
      st  == QuantityStyle(t.quant)
      sym == Join(t.symbol)
      reg == find_commodity(w1.comms, t.symbol, TRUE).registry
      num == mpz_set_str(IF RFind(t.quant, ",") # 0 \/ RFind(t.quant, ".") # 0
                         THEN StripSeparators(t.quant, 1) ELSE t.quant)
      q   == Quantity(w1, x)
  IN  IF t.err # "" THEN Throw(w1, t.err)
      ELSE Ok([w1 EXCEPT
                 !.cells[q].prec = st.prec,
                 !.cells[q].val = IF num.ok THEN num.val ELSE @,
                 !.amts[x].commodity = sym,
                 !.comms = [reg EXCEPT
                              ![sym].flags = @ \cup t.flags \cup st.flags,
                              ![sym].precision = st.prec]])

\* amount_t::parse
Parse(w, x, text) ==
  LET w1  == _init(w, x)
      t   == Tokens(text)
      st  == QuantityStyle(t.quant)
      sym == Join(t.symbol)
      reg == find_commodity(w1.comms, t.symbol, TRUE).registry
      num == mpz_set_str(IF RFind(t.quant, ",") # 0 \/ RFind(t.quant, ".") # 0
                         THEN StripSeparators(t.quant, 1) ELSE t.quant)
      q   == Quantity(w1, x)
  IN  IF t.err # "" THEN Throw(w1, t.err)
      ELSE Ok([w1 EXCEPT
                 !.cells[q].prec = st.prec,
                 !.cells[q].val = IF num.ok THEN num.val ELSE @,
                 !.amts[x].commodity = sym,
                 !.comms = [reg EXCEPT
                              ![sym].flags = @ \cup t.flags \cup st.flags,
                              ![sym].precision = Max(@, st.prec)]])

(***************************************************************************)
(* Printing.                                                               *)
(***************************************************************************)
\* mpz_get_str(NULL, 10, n) for n >= 0.
RECURSIVE IntToStr(_)
IntToStr(n) ==
  IF n < 10 THEN Digits[n + 1]
  ELSE IntToStr(n \div 10) \o Digits[(n % 10) + 1]

\* out.width(width); out.fill('0'); out << str.
RECURSIVE ZeroPad(_, _)
ZeroPad(str, width) ==
  IF Len(str) >= width THEN str ELSE ZeroPad("0" \o str, width)

\* The groups of three digits of quotient > 0, the leading group unpadded.
RECURSIVE Grouped(_, _)
Grouped(quotient, sep) ==
  IF quotient \div 1000 = 0 THEN IntToStr(quotient)
  ELSE Grouped(quotient \div 1000, sep) \o sep
         \o ZeroPad(IntToStr(quotient % 1000), 3)

\* Whether printing x stays within the explored magnitudes.
FormatFits(w, x) ==
  IF ~Present(w, x) THEN TRUE
  ELSE IF Precision(w, x) <= Cell(w, x).prec
  THEN Cell(w, x).prec - Precision(w, x) <= 9
  ELSE ScaleFits(Cell(w, x).val, Precision(w, x) - Cell(w, x).prec)

\* operator<<(std::ostream&, const amount_t&): the string written.
Format(w, x) ==
  IF ~Present(w, x) THEN ""
  ELSE
    LET c         == Cell(w, x)
        commodity == w.comms[w.amts[x].commodity]
        symbol    == w.amts[x].commodity
        precision == commodity.precision
        rounded   == IF precision < c.prec
                     THEN mpz_round(c.val, c.prec, precision)
                     ELSE IF precision > c.prec
                     THEN c.val * Pow10(precision - c.prec)
                     ELSE c.val
        quot      == IF precision < c.prec \/ precision > c.prec \/ c.prec # 0
                     THEN TDivQ(rounded, Pow10(precision)) ELSE c.val
        rem       == IF precision < c.prec \/ precision > c.prec \/ c.prec # 0
                     THEN TDivR(rounded, Pow10(precision)) ELSE 0
        negative  == quot < 0 \/ rem < 0
        quotient  == IF negative THEN Abs(quot) ELSE quot
        remainder == IF negative THEN Abs(rem) ELSE rem
        name      == IF commodity.quote THEN "\"" \o symbol \o "\"" ELSE symbol
        prefix    == IF SUFFIXED \notin commodity.flags
                     THEN name \o (IF SEPARATED \in commodity.flags
                                   THEN " " ELSE "")
                     ELSE ""
        sign      == IF negative THEN "-" ELSE ""
        whole     == IF quotient = 0 THEN "0"
                     ELSE IF THOUSANDS \notin commodity.flags
                     THEN IntToStr(quotient)
                     ELSE Grouped(quotient, IF EUROPEAN \in commodity.flags
                                            THEN "." ELSE ",")
        fraction  == IF precision # 0
                     THEN (IF EUROPEAN \in commodity.flags THEN "," ELSE ".")
                            \o ZeroPad(IntToStr(remainder), precision)
                     ELSE ""
        suffix    == IF SUFFIXED \in commodity.flags
                     THEN (IF SEPARATED \in commodity.flags THEN " " ELSE "")
                            \o name
                     ELSE ""
    IN  prefix \o sign \o whole \o fraction \o suffix

(***************************************************************************)
(* The client program: its inputs, its state and its steps.                *)
(***************************************************************************)
T_10_00 == <<"$", "1", "0", ".", "0", "0">>
T_3_00 == <<"$", "3", ".", "0", "0">>
T_neg_0_25 == <<"$", "-", "0", ".", "2", "5">>
T_1_5 == <<"$", "1", ".", "5">>
T_zero == <<"0">>
T_eur == <<"0", ".", "0", "0", "0", "0", "0", "2", "5", " ", "E", "U", "R">>

Texts == {T_10_00, T_3_00, T_neg_0_25, T_1_5, T_zero, T_eur}

\* The scales x.round(prec) is asked for.
RoundPrecs == {0, 1}

SlotOrder == <<"a", "b", "c">>

World == [cells |-> cells, amts |-> amts, comms |-> comms]

AllFalse == [op \in OPS |-> FALSE]

\* What the last step was: the operation, its receiver x and operand y, its
\* arguments, the world before it (pre), the error it threw and what it
\* returned (cmp: the five comparison results; out: the printed string).
Record(op, x, y, text, num, pre, err, cmp, out) ==
  [op |-> op, x |-> x, y |-> y, text |-> text, num |-> num, pre |-> pre,
   err |-> err, cmp |-> cmp, out |-> out]

\* GMP ended the process (division by a zero magnitude).
Crashed == last.err = "SIGFPE"

SettingUp == setup < Len(SlotOrder) /\ ~Crashed

Operating == setup = Len(SlotOrder) /\ nops < MaxOps /\ ~Crashed

\* The state after a step that left the world r.w.
Becomes(r, rec) ==
  /\ cells' = r.w.cells
  /\ amts' = r.w.amts
  /\ comms' = r.w.comms
  /\ last' = rec

\* initialize_amounts(): true_value is 1 with its count pinned at 1, the
\* registry holds the null commodity; a, b and c are default-constructed.
Init ==
  /\ cells = <<[NewCell EXCEPT !.val = 1]>>
  /\ amts = [x \in AllSlots |-> [quantity |-> NULL, commodity |-> NoCommodity]]
  /\ comms = [s \in {NullSymbol} |-> NewCommodity(<<>>)]
  /\ setup = 0
  /\ nops = 0
  /\ last = Record("init", "-", "-", <<>>, 0, [cells |-> <<>>], "", AllFalse, "")
  /\ updater = "none"
  /\ stream = <<>>
  /\ data = 1
  /\ bigints = <<>>
  /\ bigints_index = 0
  /\ bigints_count = 0

\* The next Amount stays default-constructed.
SetupDefault ==
  /\ SettingUp
  /\ setup' = setup + 1
  /\ UNCHANGED <<cells, amts, comms, nops>>
  /\ last' = Record("default", SlotOrder[setup + 1], "-", <<>>, 0, World, "",
                    AllFalse, "")
  /\ UNCHANGED statics

\* x = "text": amount_t::operator=(const std::string&).
SetupParse ==
  /\ SettingUp
  /\ \E text \in Texts :
       LET x == SlotOrder[setup + 1]
           r == Parse(World, x, text)
       IN  Becomes(r, Record("parse", x, "-", text, 0, World, r.err,
                             AllFalse, ""))
  /\ setup' = setup + 1
  /\ UNCHANGED nops
  /\ UNCHANGED statics

\* x = y for an Amount y set up earlier.
SetupCopy ==
  /\ SettingUp
  /\ \E i \in 1..setup :
       LET x == SlotOrder[setup + 1]
           y == SlotOrder[i]
           r == OpAssign(World, x, y)
       IN  Becomes(r, Record("assign", x, y, <<>>, 0, World, r.err,
                             AllFalse, ""))
  /\ setup' = setup + 1
  /\ UNCHANGED nops
  /\ UNCHANGED statics

\* x = true.
SetupBool ==
  /\ SettingUp
  /\ LET x == SlotOrder[setup + 1]
         r == OpAssignBool(World, x, TRUE)
     IN  Becomes(r, Record("bool", x, "-", <<>>, 1, World, r.err,
                           AllFalse, ""))
  /\ setup' = setup + 1
  /\ UNCHANGED nops
  /\ UNCHANGED statics

\* Whether x += y / x -= y stays within the explored magnitudes.
AddFits(w, x, y) ==
  IF ~Present(w, x) THEN TRUE
  ELSE IF ~Present(w, y) THEN TRUE
  ELSE IF w.amts[x].commodity # w.amts[y].commodity THEN TRUE
  ELSE LET p  == Max(Cell(w, x).prec, Cell(w, y).prec)
           dx == p - Cell(w, x).prec
           dy == p - Cell(w, y).prec
       IN  /\ ScaleFits(Cell(w, x).val, dx)
           /\ ScaleFits(Cell(w, y).val, dy)
           /\ Abs(Cell(w, x).val) * Pow10(dx)
                + Abs(Cell(w, y).val) * Pow10(dy) <= MaxMag

\* Whether rounding x's product or quotient of scale prec to the cap is
\* explored.
CapFits(w, x, prec) == prec - (Precision(w, x) + Headroom) <= 9

ProductFits(w, x, y) ==
  IF ~Present(w, x) THEN TRUE
  ELSE IF ~Present(w, y) THEN TRUE
  ELSE /\ MulFits(Cell(w, x).val, Cell(w, y).val)
       /\ CapFits(w, x, Cell(w, x).prec + Cell(w, y).prec)

QuotientFits(w, x, y) ==
  IF ~Present(w, x) THEN TRUE
  ELSE IF ~Present(w, y) THEN TRUE
  ELSE IF Cell(w, y).val = 0 THEN TRUE
  ELSE /\ LongDivFits(Cell(w, x).val, Cell(w, y).prec + Headroom,
                      Cell(w, y).val)
       /\ CapFits(w, x, Cell(w, x).prec + Headroom)

CmpFits(w, x, y) ==
  IF ~Present(w, x) THEN TRUE
  ELSE IF ~Present(w, y) THEN TRUE
  ELSE LET p == Max(Cell(w, x).prec, Cell(w, y).prec)
       IN  /\ ScaleFits(Cell(w, x).val, p - Cell(w, x).prec)
           /\ ScaleFits(Cell(w, y).val, p - Cell(w, y).prec)

RoundFits(w, x, prec) ==
  IF Present(w, x) THEN Cell(w, x).prec - prec <= 9 ELSE TRUE

\* x += y
Add ==
  /\ Operating
  /\ \E x \in Slots, y \in Slots :
       /\ AddFits(World, x, y)
       /\ LET r == OpAdd(World, x, y)
          IN  Becomes(r, Record("+=", x, y, <<>>, 0, World, r.err,
                                AllFalse, ""))
  /\ nops' = nops + 1
  /\ UNCHANGED setup
  /\ UNCHANGED statics

\* x -= y
Sub ==
  /\ Operating
  /\ \E x \in Slots, y \in Slots :
       /\ AddFits(World, x, y)
       /\ LET r == OpSub(World, x, y)
          IN  Becomes(r, Record("-=", x, y, <<>>, 0, World, r.err,
                                AllFalse, ""))
  /\ nops' = nops + 1
  /\ UNCHANGED setup
  /\ UNCHANGED statics

\* x *= y
Mul ==
  /\ Operating
  /\ \E x \in Slots, y \in Slots :
       /\ ProductFits(World, x, y)
       /\ LET r == OpMul(World, x, y)
          IN  Becomes(r, Record("*=", x, y, <<>>, 0, World, r.err,
                                AllFalse, ""))
  /\ nops' = nops + 1
  /\ UNCHANGED setup
  /\ UNCHANGED statics

\* x /= y
Div ==
  /\ Operating
  /\ \E x \in Slots, y \in Slots :
       /\ QuotientFits(World, x, y)
       /\ LET r == OpDiv(World, x, y)
          IN  Becomes(r, Record("/=", x, y, <<>>, 0, World, r.err,
                                AllFalse, ""))
  /\ nops' = nops + 1
  /\ UNCHANGED setup
  /\ UNCHANGED statics

\* x.negate()
Negate ==
  /\ Operating
  /\ \E x \in Slots :
       LET r == OpNegate(World, x)
       IN  Becomes(r, Record("negate", x, "-", <<>>, 0, World, r.err,
                             AllFalse, ""))
  /\ nops' = nops + 1
  /\ UNCHANGED setup
  /\ UNCHANGED statics

\* x = x.round(prec)
Round ==
  /\ Operating
  /\ \E x \in Slots, prec \in RoundPrecs :
       /\ RoundFits(World, x, prec)
       /\ LET r == OpRound(World, x, prec)
          IN  Becomes(r, Record("round", x, "-", <<>>, prec, World, r.err,
                                AllFalse, ""))
  /\ nops' = nops + 1
  /\ UNCHANGED setup
  /\ UNCHANGED statics

\* x < y, x <= y, x > y, x >= y and x == y, one call after the other.
Compare ==
  /\ Operating
  /\ \E x \in Slots, y \in Slots :
       /\ CmpFits(World, x, y)
       /\ LET h1 == AmountCmpHeap(World, x, y)
              h2 == AmountCmpHeap(h1, x, y)
              h3 == AmountCmpHeap(h2, x, y)
              h4 == AmountCmpHeap(h3, x, y)
              h5 == AmountCmpHeap(h4, x, y)
          IN  Becomes(Ok(h5),
                      Record("cmp", x, y, <<>>, 0, World, "",
                             [op \in OPS |-> AmountCmp(World, x, y, op)], ""))
  /\ nops' = nops + 1
  /\ UNCHANGED setup
  /\ UNCHANGED statics

\* x < 0, x <= 0, x > 0, x >= 0 and x == 0.
CompareZero ==
  /\ Operating
  /\ \E x \in Slots :
       last' = Record("cmp0", x, "-", <<>>, 0, World, "",
                      [op \in OPS |-> CmpZero(World, x, op)], "")
  /\ nops' = nops + 1
  /\ UNCHANGED <<cells, amts, comms, setup>>
  /\ UNCHANGED statics

\* out << x
Output ==
  /\ Operating
  /\ \E x \in Slots :
       /\ FormatFits(World, x)
       /\ last' = Record("print", x, "-", <<>>, 0, World, "", AllFalse,
                         Format(World, x))
  /\ nops' = nops + 1
  /\ UNCHANGED <<cells, amts, comms, setup>>
  /\ UNCHANGED statics

Next ==
  \/ SetupDefault
  \/ SetupParse
  \/ SetupCopy
  \/ SetupBool
  \/ Add
  \/ Sub
  \/ Mul
  \/ Div
  \/ Negate
  \/ Round
  \/ Compare
  \/ CompareZero
  \/ Output

Spec == Init /\ [][Next]_vars

(***************************************************************************)
(* A second client reads amounts from text: it parses a text into a or b   *)
(* and prints the Amount, or adds or multiplies the Amounts it has read,   *)
(* up to MaxParses times.  It stops at the first error.                    *)
(***************************************************************************)
\* Calls the parsing client makes.
MaxParses == 2

\* amount_t::valid
valid(w, x) ==
  IF Quantity(w, x) # NULL
  THEN IF w.amts[x].commodity = NoCommodity THEN FALSE
       ELSE IF Cell(w, x).ref = 0 THEN FALSE
       ELSE TRUE
  ELSE IF w.amts[x].commodity # NoCommodity THEN FALSE
  ELSE TRUE

P_1_234_50 == <<"$", "1", ",", "2", "3", "4", ".", "5", "0">>
P_eur == <<"1", ".", "2", "3", "4", ",", "5", "0", " ", "E", "U", "R">>
P_1_234 == <<"1", ",", "2", "3", "4">>
P_5 == <<"$", "5">>
P_neg_eur == <<"-", "0", ".", "2", "5", " ", "E", "U", "R">>
P_5eur == <<"5", "E", "U", "R">>
P_sep_7 == <<"$", " ", "7">>
P_millions == <<"$", "1", ",", "2", "3", "4", ",", "5", "6", "7">>
P_sign == <<"$", "-">>
P_dots == <<"$", "1", ".", ".", "5">>
P_empty == <<"$">>
P_quote == <<"\"", "E", "U">>

\* Texts of the grammar  sign? digits ([.,] digits)* ws? symbol?  and
\* symbol ws? sign? digits ([.,] digits)*.
CleanTexts ==
  {T_10_00, T_neg_0_25, P_1_234_50, P_eur, P_1_234, P_5, P_neg_eur, P_5eur,
   P_sep_7, P_millions}

\* A lone sign, two adjacent separators, no number, no closing quote.
MalformedTexts == {P_sign, P_dots, P_empty, P_quote}

ParseTexts == CleanTexts \cup MalformedTexts

ParseSlots == {"a", "b"}

Parsing == nops < MaxParses /\ last.err = ""

\* x.parse(text); out << x;
ParsePrint ==
  /\ Parsing
  /\ \E x \in ParseSlots, text \in ParseTexts :
       LET r == Parse(World, x, text)
       IN  /\ IF r.err = "" THEN FormatFits(r.w, x) ELSE TRUE
           /\ Becomes(r, Record("parse", x, "-", text, 0, World, r.err,
                                AllFalse,
                                IF r.err = "" THEN Format(r.w, x) ELSE ""))
  /\ nops' = nops + 1
  /\ UNCHANGED <<setup, statics>>

\* x += y for the Amounts read.
ParsedAdd ==
  /\ Parsing
  /\ \E x \in ParseSlots, y \in ParseSlots :
       /\ AddFits(World, x, y)
       /\ LET r == OpAdd(World, x, y)
          IN  Becomes(r, Record("+=", x, y, <<>>, 0, World, r.err,
                                AllFalse, ""))
  /\ nops' = nops + 1
  /\ UNCHANGED <<setup, statics>>

\* x *= y for the Amounts read.
ParsedMul ==
  /\ Parsing
  /\ \E x \in ParseSlots, y \in ParseSlots :
       /\ ProductFits(World, x, y)
       /\ LET r == OpMul(World, x, y)
          IN  Becomes(r, Record("*=", x, y, <<>>, 0, World, r.err,
                                AllFalse, ""))
  /\ nops' = nops + 1
  /\ UNCHANGED <<setup, statics>>

\* Symbols the client looks up: the null symbol, two that texts use, one
\* that no text uses.
FindSymbols == {<<>>, <<"$">>, <<"E", "U", "R">>, <<"X">>}

\* commodity_t::find_commodity(symbol, auto_create); num records auto_create
\* and out the commodity returned.
Find ==
  /\ Parsing
  /\ \E symbol \in FindSymbols, auto_create \in BOOLEAN :
       LET r == find_commodity(comms, symbol, auto_create)
       IN  /\ comms' = r.registry
           /\ last' = Record("find", "-", "-", symbol,
                             IF auto_create THEN 1 ELSE 0, World, "",
                             AllFalse, r.found)
  /\ nops' = nops + 1
  /\ UNCHANGED <<cells, amts, setup, statics>>

NextParse ==
  \/ ParsePrint
  \/ ParsedAdd
  \/ ParsedMul
  \/ Find

SpecParse == Init /\ [][NextParse]_vars

(***************************************************************************)
(* Valuation.                                                              *)
(***************************************************************************)
\* The Amount object that history holds under a date.
HistorySlot(symbol, date) == symbol \o "@" \o Digits[date + 1]

\* The world with one more (absent) Amount object, if it is not there yet.
WithSlot(w, s) ==
  IF s \in DOMAIN w.amts THEN w
  ELSE [w EXCEPT !.amts = [t \in DOMAIN w.amts \cup {s} |->
                             IF t = s
                             THEN [quantity |-> NULL, commodity |-> NoCommodity]
                             ELSE w.amts[t]]]

\* The destructor of a local Amount.
DestroyLocal(w, s) ==
  IF Quantity(w, s) = NULL THEN w
  ELSE [_release(w, s) EXCEPT !.amts[s] =
           [quantity |-> NULL, commodity |-> NoCommodity]]

\* commodity_t::add_price: the price is assigned to the entry of the date, or
\* a copy of it is inserted.
add_price(w, symbol, date, y) ==
  LET h  == HistorySlot(symbol, date)
      w1 == OpAssign(WithSlot(w, h), h, y).w
      m  == w.comms[symbol].history
  IN  [w1 EXCEPT !.comms[symbol].history =
         [d \in DOMAIN m \cup {date} |-> IF d = date THEN h ELSE m[d]]]

\* The loop of commodity_t::value with the history walked from its oldest
\* entry.
RECURSIVE WalkOldestFirst(_, _)
WalkOldestFirst(dates, moment) ==
  IF dates = {} THEN 0
  ELSE LET d == CHOOSE i \in dates : \A j \in dates : i <= j
       IN  IF moment = 0 THEN d
           ELSE IF moment >= d THEN d
           ELSE WalkOldestFirst(dates \ {d}, moment)

\* The loop of commodity_t::value: from history.rbegin() on, the first date
\* with moment == 0 or difftime(moment, date) >= 0; 0 when the loop ends
\* without one.
RECURSIVE Walk(_, _)
Walk(dates, moment) ==
  IF dates = {} THEN 0
  ELSE LET d == CHOOSE i \in dates : \A j \in dates : j <= i
       IN  IF moment = 0 THEN d
           ELSE IF moment >= d THEN d
           ELSE Walk(dates \ {d}, moment)

\* (*history.rbegin()).first, 0 for an empty history.
Newest(dates) ==
  IF dates = {} THEN 0 ELSE CHOOSE i \in dates : \A j \in dates : j <= i

\* What an updater does to the price it is handed: "observe" leaves it,
\* "clear" assigns it an empty Amount.
Updaters == {"observe", "clear"}

CallUpdater(w, hook) ==
  IF hook = "clear" THEN OpAssignBool(w, "price", FALSE).w ELSE w

\* commodity_t::value(moment): the returned price is left in "amt"; age and
\* newest are the dates the updater is called with.
commodity_value(w, symbol, moment, hook) ==
  LET m   == w.comms[symbol].history
      age == Walk(DOMAIN m, moment)
      w1  == IF age # 0 THEN OpAssign(w, "price", m[age]).w ELSE w
      w2  == IF hook # "none" THEN CallUpdater(w1, hook) ELSE w1
      w3  == DestroyLocal(OpAssign(w2, "amt", "price").w, "price")
  IN  [w |-> w3, age |-> age, newest |-> Newest(DOMAIN m),
       called |-> hook # "none", consulted |-> TRUE]

\* amount_t::operator bool
operator_bool(w, x) ==
  IF ~Present(w, x) THEN FALSE
  ELSE IF Cell(w, x).prec <= Precision(w, x) THEN Cell(w, x).val # 0
  ELSE TDivQ(Cell(w, x).val, Pow10(Cell(w, x).prec - Precision(w, x))) # 0

\* `return *this' out of amount_t::value: the returned Amount is "tmp".
ReturnSelf(w, x) == DestroyLocal(TempCopy(w, x), "amt")

NotConsulted(w, x) ==
  [w |-> ReturnSelf(w, x), age |-> 0, newest |-> 0, called |-> FALSE,
   consulted |-> FALSE]

\* amount_t::value(moment): the returned Amount is left in "tmp".  amt * *this
\* is a copy of amt multiplied by *this with *=.
amount_value(w, x, moment, hook) ==
  IF ~Present(w, x) THEN NotConsulted(w, x)
  ELSE IF NOMARKET \in w.comms[w.amts[x].commodity].flags
  THEN NotConsulted(w, x)
  ELSE LET v == commodity_value(w, w.amts[x].commodity, moment, hook)
       IN  IF operator_bool(v.w, "amt")
           THEN LET w1 == OpAssign(v.w, "prod", "amt").w
                    w2 == OpMul(w1, "prod", x).w
                    w3 == RoundToTemp(w2, "prod", Precision(w, x))
                IN  [v EXCEPT !.w = DestroyLocal(DestroyLocal(w3, "prod"),
                                                 "amt")]
           ELSE [v EXCEPT !.w = ReturnSelf(v.w, x)]

(***************************************************************************)
(* A third client values an Amount: it gives a a value (or leaves it       *)
(* default-constructed), adds up to MaxPrices prices to the history of the *)
(* commodity $, may install an updater and may mark a's commodity          *)
(* NOMARKET, and then calls c = a.value(moment).                           *)
(***************************************************************************)
\* Prices the valuing client adds.
MaxPrices == 2
\* The latest date of a price.
MaxDate == 3

Dates == 1..MaxDate

Moments == 0..(MaxDate + 1)

V_100 == <<"$", "1", "0", "0">>
V_eur_1 == <<"E", "U", "R", " ", "1">>
V_0_90 == <<"E", "U", "R", " ", "0", ".", "9", "0">>
V_0_95 == <<"E", "U", "R", " ", "0", ".", "9", "5">>
V_0_00 == <<"E", "U", "R", " ", "0", ".", "0", "0">>

AmountTexts == {V_100, T_1_5, V_eur_1}

PriceTexts == {V_0_90, V_0_95, V_0_00}

Priced == "$"

\* What value() was called with and what happened in it: the dates the
\* updater was called with, and the price commodity_t::value returned.
ValueRecord(x, moment, pre, v, price) ==
  [op |-> "value", x |-> x, y |-> "c", text |-> <<>>, num |-> moment,
   pre |-> pre, err |-> "", cmp |-> AllFalse, out |-> "",
   consulted |-> v.consulted, called |-> v.called, age |-> v.age,
   newest |-> v.newest, price |-> price]

\* The Amount x of world w by value: absent, or its magnitude, scale and
\* commodity.
Denotes(w, x) ==
  IF Present(w, x)
  THEN [present |-> TRUE, val |-> Cell(w, x).val, prec |-> Cell(w, x).prec,
        commodity |-> w.amts[x].commodity]
  ELSE [present |-> FALSE, val |-> 0, prec |-> 0, commodity |-> NoCommodity]

\* a stays default-constructed.
ValueDefault ==
  /\ setup = 0
  /\ setup' = 1
  /\ last' = Record("default", "a", "-", <<>>, 0, World, "", AllFalse, "")
  /\ UNCHANGED <<cells, amts, comms, nops, statics>>

\* a = "text"
ValueParse ==
  /\ setup = 0
  /\ \E text \in AmountTexts :
       LET r == Parse(World, "a", text)
       IN  Becomes(r, Record("parse", "a", "-", text, 0, World, r.err,
                             AllFalse, ""))
  /\ setup' = 1
  /\ UNCHANGED <<nops, statics>>

\* b = "text"; commodity_t::find_commodity("$", true)->add_price(date, b);
AddPrice ==
  /\ setup = 1
  /\ nops < MaxPrices
  /\ \E text \in PriceTexts, date \in Dates :
       LET r  == Parse(World, "b", text)
           w1 == [r.w EXCEPT !.comms = find_commodity(@, <<Priced>>, TRUE).registry]
       IN  Becomes(Ok(add_price(w1, Priced, date, "b")),
                   Record("add_price", "b", "-", text, date, World, "",
                          AllFalse, ""))
  /\ nops' = nops + 1
  /\ UNCHANGED <<setup, statics>>

\* commodity_t::updater = an updater
SetUpdater ==
  /\ setup = 1
  /\ updater = "none"
  /\ updater' \in Updaters
  /\ last' = Record("updater", "-", "-", <<>>, 0, World, "", AllFalse, "")
  /\ UNCHANGED <<cells, amts, comms, setup, nops, stream, data, bigints,
                 bigints_index, bigints_count>>

\* a.commodity->flags |= COMMODITY_STYLE_NOMARKET
SetNoMarket ==
  /\ setup = 1
  /\ amts["a"].quantity # NULL
  /\ NOMARKET \notin comms[amts["a"].commodity].flags
  /\ comms' = [comms EXCEPT ![amts["a"].commodity].flags = @ \cup {NOMARKET}]
  /\ last' = Record("nomarket", "a", "-", <<>>, 0, World, "", AllFalse, "")
  /\ UNCHANGED <<cells, amts, setup, nops, statics>>

\* c = a.value(moment)
Value ==
  /\ setup = 1
  /\ \E moment \in Moments :
       LET v  == amount_value(World, "a", moment, updater)
           p  == IF v.consulted
                 THEN Denotes(commodity_value(World, amts["a"].commodity,
                                              moment, updater).w, "amt")
                 ELSE Denotes(World, "tmp")
           w1 == TempDestroy(OpAssign(v.w, "c", "tmp").w)
       IN  Becomes(Ok(w1), ValueRecord("a", moment, World, v, p))
  /\ setup' = 2
  /\ UNCHANGED <<nops, statics>>

NextValue ==
  \/ ValueDefault
  \/ ValueParse
  \/ AddPrice
  \/ SetUpdater
  \/ SetNoMarket
  \/ Value

SpecValue == Init /\ [][NextValue]_vars

(***************************************************************************)
(* The binary cache.  The stream is a sequence of bytes; multi-byte fields *)
(* are written as they lie in memory (least significant byte first).       *)
(***************************************************************************)
\* out.write((char *)&n, sizeof(unsigned short)) and its reading.
Short(n) == <<n % 256, (n \div 256) % 256>>

ReadShort(b1, b2) == b1 + 256 * b2

\* out.write((char *)&n, sizeof(unsigned int)) and its reading.
UInt(n) ==
  <<n % 256, (n \div 256) % 256, (n \div 65536) % 256, (n \div 16777216) % 256>>

ReadUInt(b1, b2, b3, b4) == b1 + 256 * b2 + 65536 * b3 + 16777216 * b4

\* mpz_export(buf, &size, 1, sizeof(short), 0, 0, val): the 16-bit words of
\* the absolute value, the most significant word first (none for zero), each
\* word in native byte order.
RECURSIVE mpz_export(_)
mpz_export(n) ==
  IF n = 0 THEN <<>>
  ELSE mpz_export(n \div 65536) \o Short(n % 65536)

\* The byte at position i; past the end of the stream it is whatever lies
\* there (junk).
ByteAt(bytes, junk, i) == IF i <= Len(bytes) THEN bytes[i] ELSE junk

\* mpz_import(val, count, 1, sizeof(short), 0, 0, data): count words from
\* position i on.
RECURSIVE mpz_import(_, _, _, _, _)
mpz_import(bytes, junk, i, count, acc) ==
  IF count = 0 THEN acc
  ELSE mpz_import(bytes, junk, i + 2, count - 1,
                  acc * 65536 + ReadShort(ByteAt(bytes, junk, i),
                                          ByteAt(bytes, junk, i + 1)))

\* amount_t::write_quantity: the world (the cell has its index), the bytes
\* written and the counter after the call.  err is "SIGABRT" when the
\* assertion on the count of a cell written before fails.
write_quantity(w, x, index) ==
  IF Quantity(w, x) = NULL
  THEN [w |-> w, bytes |-> <<0>>, index |-> index, err |-> ""]
  ELSE IF Cell(w, x).index = 0
  THEN LET c   == Cell(w, x)
           buf == mpz_export(Abs(c.val))
           len == Len(buf) % 65536
       IN  [w |-> [w EXCEPT !.cells[Quantity(w, x)].index = index + 1],
            bytes |-> <<1>> \o Short(len)
                        \o (IF len # 0
                            THEN buf \o <<IF c.val < 0 THEN 1 ELSE 0>>
                                     \o Short(c.prec)
                            ELSE <<>>),
            index |-> index + 1, err |-> ""]
  ELSE IF Cell(w, x).ref > 1
  THEN [w |-> w, bytes |-> <<2>> \o UInt(Cell(w, x).index), index |-> index,
        err |-> ""]
  ELSE [w |-> w, bytes |-> <<>>, index |-> index, err |-> "SIGABRT"]

\* What `bigints + (index - 1)' may be when index designates no cell read:
\* the process ends at the increment of ref, or the Amount is left with
\* whatever lies there.
Wild == {"SIGSEGV", "garbage"}

\* amount_t::read_quantity of the record at position pos: the world, the
\* arena and the position after it.  x's previous quantity is overwritten.
read_quantity(w, x, bytes, junk, pos, arena, wild) ==
  LET byte == ByteAt(bytes, junk, pos)
  IN  IF byte = 0
      THEN [w |-> [w EXCEPT !.amts[x].quantity = NULL], arena |-> arena,
            pos |-> pos + 1, err |-> "", tag |-> byte, index |-> 0]
      ELSE IF byte = 1
      THEN LET len      == ReadShort(ByteAt(bytes, junk, pos + 1),
                                     ByteAt(bytes, junk, pos + 2))
               val      == mpz_import(bytes, junk, pos + 3, len \div 2, 0)
               negative == ByteAt(bytes, junk, pos + 3 + len)
               prec     == ReadShort(ByteAt(bytes, junk, pos + 4 + len),
                                     ByteAt(bytes, junk, pos + 5 + len))
               w1       == AllocInto(w, x,
                             [NewCell EXCEPT
                                !.bulk = TRUE,
                                !.val = IF negative # 0 THEN 0 - val ELSE val,
                                !.prec = prec])
           IN  [w |-> w1, arena |-> Append(arena, Quantity(w1, x)),
                pos |-> pos + 6 + len, err |-> "", tag |-> byte, index |-> 0]
      ELSE LET index == ReadUInt(ByteAt(bytes, junk, pos + 1),
                                ByteAt(bytes, junk, pos + 2),
                                ByteAt(bytes, junk, pos + 3),
                                ByteAt(bytes, junk, pos + 4))
           IN  IF index \in 1..Len(arena)
               THEN [w |-> [w EXCEPT !.amts[x].quantity = arena[index],
                                     !.cells[arena[index]].ref = @ + 1],
                     arena |-> arena, pos |-> pos + 5, err |-> "",
                     tag |-> byte, index |-> index]
               ELSE IF wild = "SIGSEGV"
               THEN [w |-> w, arena |-> arena, pos |-> pos + 5,
                     err |-> "SIGSEGV", tag |-> byte, index |-> index]
               ELSE [w |-> AllocInto(w, x, [NewCell EXCEPT !.bulk = TRUE,
                                                           !.val = junk,
                                                           !.ref = junk + 1]),
                     arena |-> arena, pos |-> pos + 5, err |-> "",
                     tag |-> byte, index |-> index]

(***************************************************************************)
(* A fourth client saves and loads the cache: it gives a, b and c their    *)
(* values, writes their quantities to the stream in that order, and reads  *)
(* the stream back into the new Amounts ra, rb and rc.  Or it reads a      *)
(* stream that it did not write.  It stops at the first error.             *)
(***************************************************************************)
BinTexts == {T_10_00, T_neg_0_25, T_zero, P_1_234_50}

ReadOrder == <<"ra", "rb", "rc">>

\* The byte that lies past the end of the stream.
PastEnd == {0, 1}

\* The record of a cell with magnitude 5 and scale 0.
F_five == <<1, 2, 0, 5, 0, 0, 0, 0>>

\* Streams with a record of tag 3, with a reference to index 0, to an index
\* past the cells read, and to a cell before any was read.
ForeignStreams ==
  {F_five \o <<3, 1, 0, 0, 0>> \o <<0>>,
   F_five \o <<2, 0, 0, 0, 0>> \o <<0>>,
   F_five \o <<2, 2, 0, 0, 0>> \o <<0>>,
   <<2, 1, 0, 0, 0>> \o F_five \o <<0>>,
   F_five \o <<2, 1, 0, 0, 0>> \o <<0>>}

Written == Len(SlotOrder)

Foreign == Len(SlotOrder) + 1

\* x = "text" for the next Amount.
BinParse ==
  /\ SettingUp
  /\ \E text \in BinTexts :
       LET x == SlotOrder[setup + 1]
           r == Parse(World, x, text)
       IN  Becomes(r, Record("parse", x, "-", text, 0, World, r.err,
                             AllFalse, ""))
  /\ setup' = setup + 1
  /\ UNCHANGED <<nops, statics>>

\* The step of a write or a read: the bytes written, or the tag and the index
\* read and the number of cells read before.
BinRecord(op, x, pre, err, bytes, tag, index, before) ==
  [op |-> op, x |-> x, y |-> "-", text |-> <<>>, num |-> 0, pre |-> pre,
   err |-> err, cmp |-> AllFalse, out |-> "", bytes |-> bytes, tag |-> tag,
   index |-> index, before |-> before]

\* x.write_quantity(out) for the next of a, b and c.
Write ==
  /\ setup = Written
  /\ nops < Len(SlotOrder)
  /\ last.err = ""
  /\ LET x == SlotOrder[nops + 1]
         r == write_quantity(World, x, bigints_index)
     IN  /\ Becomes(r, BinRecord("write", x, World, r.err, r.bytes, 0, 0,
                                 bigints_index))
         /\ stream' = stream \o r.bytes
         /\ bigints_index' = r.index
         /\ bigints_count' = bigints_count + (r.index - bigints_index)
  /\ nops' = nops + 1
  /\ UNCHANGED <<setup, updater, data, bigints>>

\* The client is handed a stream it did not write.
Load ==
  /\ setup = 0
  /\ nops = 0
  /\ stream' \in ForeignStreams
  /\ setup' = Foreign
  /\ nops' = Len(SlotOrder)
  /\ last' = Record("load", "-", "-", <<>>, 0, World, "", AllFalse, "")
  /\ UNCHANGED <<cells, amts, comms, updater, data, bigints, bigints_index,
                 bigints_count>>

\* Whether the record at pos holds a magnitude within the explored ones.
ReadFits(bytes, junk, pos) ==
  IF ByteAt(bytes, junk, pos) # 1 THEN TRUE
  ELSE LET len == ReadShort(ByteAt(bytes, junk, pos + 1),
                            ByteAt(bytes, junk, pos + 2))
       IN  IF len > 4 THEN FALSE
           ELSE IF len < 4 THEN TRUE
           ELSE ByteAt(bytes, junk, pos + 4) < 64

\* x.read_quantity(in) for the next of the new Amounts ra, rb and rc.
Read ==
  /\ setup \in {Written, Foreign}
  /\ nops >= Len(SlotOrder)
  /\ nops < Len(SlotOrder) + Len(ReadOrder)
  /\ last.err = ""
  /\ \E junk \in PastEnd, wild \in Wild :
       /\ ReadFits(stream, junk, data)
       /\ LET x == ReadOrder[nops - Len(SlotOrder) + 1]
              r == read_quantity(WithSlot(World, x), x, stream, junk, data,
                                 bigints, wild)
          IN  /\ Becomes(r, BinRecord("read", x, World, r.err, <<>>, r.tag,
                                      r.index, Len(bigints)))
              /\ data' = r.pos
              /\ bigints' = r.arena
  /\ nops' = nops + 1
  /\ UNCHANGED <<setup, updater, stream, bigints_index, bigints_count>>

NextBinary ==
  \/ SetupDefault
  \/ BinParse
  \/ SetupCopy
  \/ Write
  \/ Load
  \/ Read

SpecBinary == Init /\ [][NextBinary]_vars

(***************************************************************************)
(* A fifth client shares quantities: it sets a, b and c up from two texts, *)
(* copies and true, and then assigns, re-parses and computes in place.     *)
(***************************************************************************)
ShareTexts == {T_10_00, T_1_5}

\* Texts parsed into an Amount that may already hold a quantity.
ReparseTexts == {T_neg_0_25, T_eur}

\* Integers assigned.
IntValues == {0, 5, -3}

\* x = "text" while setting up.
ShareParse ==
  /\ SettingUp
  /\ \E text \in ShareTexts :
       LET x == SlotOrder[setup + 1]
           r == Parse(World, x, text)
       IN  Becomes(r, Record("parse", x, "-", text, 0, World, r.err,
                             AllFalse, ""))
  /\ setup' = setup + 1
  /\ UNCHANGED <<nops, statics>>

\* x.parse(text) on an Amount in use.
Reparse ==
  /\ Operating
  /\ \E x \in Slots, text \in ReparseTexts :
       LET r == Parse(World, x, text)
       IN  Becomes(r, Record("parse", x, "-", text, 0, World, r.err,
                             AllFalse, ""))
  /\ nops' = nops + 1
  /\ UNCHANGED <<setup, statics>>

\* x = value for an integer value.
AssignInt ==
  /\ Operating
  /\ \E x \in Slots, value \in IntValues :
       LET r == OpAssignInt(World, x, value)
       IN  Becomes(r, Record("=int", x, "-", <<>>, value, World, r.err,
                             AllFalse, ""))
  /\ nops' = nops + 1
  /\ UNCHANGED <<setup, statics>>

\* x = value for a truth value; num records it.
AssignBool ==
  /\ Operating
  /\ \E x \in Slots, value \in BOOLEAN :
       LET r == OpAssignBool(World, x, value)
       IN  Becomes(r, Record("=bool", x, "-", <<>>, IF value THEN 1 ELSE 0,
                             World, r.err, AllFalse, ""))
  /\ nops' = nops + 1
  /\ UNCHANGED <<setup, statics>>

\* x = y
Assign ==
  /\ Operating
  /\ \E x \in Slots, y \in Slots :
       LET r == OpAssign(World, x, y)
       IN  Becomes(r, Record("=", x, y, <<>>, 0, World, r.err, AllFalse, ""))
  /\ nops' = nops + 1
  /\ UNCHANGED <<setup, statics>>

NextShare ==
  \/ SetupDefault
  \/ ShareParse
  \/ SetupCopy
  \/ SetupBool
  \/ Add
  \/ Sub
  \/ Mul
  \/ Div
  \/ Negate
  \/ Round
  \/ Reparse
  \/ AssignInt
  \/ AssignBool
  \/ Assign

SpecShare == Init /\ [][NextShare]_vars

(***************************************************************************)
(* Prices read from the cache.  A journal read from the binary cache has   *)
(* its cells in a pool; when the journal goes away, the prices that the    *)
(* commodities keep in their histories must leave the pool.                *)
(***************************************************************************)
\* The Amount objects of every price history.
HistorySlots(w) ==
  UNION {{w.comms[s].history[d] : d \in DOMAIN w.comms[s].history} :
           s \in DOMAIN w.comms}

\* The body of the loop for one price: bigint_t(*quantity), --quantity->ref,
\* the destructor in place at zero, and the new pointer.
CleanPrice(w, h, pool) ==
  IF Quantity(w, h) # NULL /\ Quantity(w, h) \in pool
  THEN AllocInto(_release(w, h), h, CopyCell(Cell(w, h)))
  ELSE w

\* The loop with the count of the old cell left as it was.
RECURSIVE CleanKeepingCount(_, _, _)
CleanKeepingCount(w, slots, pool) ==
  IF slots = {} THEN w
  ELSE LET h == CHOOSE t \in slots : TRUE
           r == IF Quantity(w, h) # NULL /\ Quantity(w, h) \in pool
                THEN AllocInto(w, h, CopyCell(Cell(w, h)))
                ELSE w
       IN  CleanKeepingCount(r, slots \ {h}, pool)

\* clean_commodity_history over the prices `slots' still to visit; pool is
\* the set of cells that lie in [item_pool, item_pool_end).  The order of the
\* visits decides only which new cell is allocated first.
RECURSIVE clean_commodity_history(_, _, _)
clean_commodity_history(w, slots, pool) ==
  IF slots = {} THEN w
  ELSE LET h == CHOOSE t \in slots : TRUE
       IN  clean_commodity_history(CleanPrice(w, h, pool), slots \ {h}, pool)

(***************************************************************************)
(* A sixth client loads prices: it reads the quantities of a cache one by  *)
(* one and enters each as a price of "$" under a new date (keeping a copy  *)
(* in c or not), enters prices parsed from text, and at last cleans the    *)
(* histories of the cells of a part of the cache.                          *)
(***************************************************************************)
\* Prices parsed from text.
MaxParsedPrices == 1

\* The record of a cell with magnitude 7 and scale 1.
F_seven == <<1, 2, 0, 7, 0, 0, 1, 0>>

\* A cache with 5, a reference to it, and 0.7.
CacheStream == F_five \o <<2, 1, 0, 0, 0>> \o F_seven

Loading == setup = 1 /\ last.err = ""

\* The step of a clean: the cells of the pool.
CleanRecord(pre, pool) ==
  [op |-> "clean", x |-> "-", y |-> "-", text |-> <<>>, num |-> 0,
   pre |-> pre, err |-> "", cmp |-> AllFalse, out |-> "", pool |-> pool]

\* The client opens the cache.
OpenCache ==
  /\ setup = 0
  /\ stream' = CacheStream
  /\ setup' = 1
  /\ last' = Record("open", "-", "-", <<>>, 0, World, "", AllFalse, "")
  /\ UNCHANGED <<cells, amts, comms, nops, updater, data, bigints,
                 bigints_index, bigints_count>>

\* amount_t price; price.read_quantity(in);
\* commodity_t::find_commodity("$", true)->add_price(date, price);
\* and, for some prices, c = price.
CachedPrice ==
  /\ Loading
  /\ data <= Len(stream)
  /\ \E date \in Dates, keep \in BOOLEAN :
       /\ Priced \in DOMAIN comms => date \notin DOMAIN comms[Priced].history
       /\ LET r  == read_quantity(World, "price", stream, 0, data, bigints,
                               "SIGSEGV")
              w1 == [r.w EXCEPT
                       !.amts["price"].commodity = NullSymbol,
                       !.comms = find_commodity(@, <<Priced>>, TRUE).registry]
              w2 == add_price(w1, Priced, date, "price")
              w3 == IF keep THEN OpAssign(w2, "c", "price").w ELSE w2
          IN  /\ Becomes(Ok(DestroyLocal(w3, "price")),
                         Record("cached", "price", "-", <<>>, date, World,
                                r.err, AllFalse, ""))
              /\ data' = r.pos
              /\ bigints' = r.arena
  /\ UNCHANGED <<setup, nops, updater, stream, bigints_index, bigints_count>>

\* b = "EUR 0.90"; commodity_t::find_commodity("$", true)->add_price(date, b);
ParsedPrice ==
  /\ Loading
  /\ nops < MaxParsedPrices
  /\ \E date \in Dates :
       /\ Priced \in DOMAIN comms => date \notin DOMAIN comms[Priced].history
       /\ LET r  == Parse(World, "b", V_0_90)
              w1 == [r.w EXCEPT
                       !.comms = find_commodity(@, <<Priced>>, TRUE).registry]
          IN  Becomes(Ok(add_price(w1, Priced, date, "b")),
                      Record("add_price", "b", "-", V_0_90, date, World, "",
                             AllFalse, ""))
  /\ nops' = nops + 1
  /\ UNCHANGED <<setup, statics>>

\* clean_commodity_history(item_pool, item_pool_end) for a pool that holds
\* the cells read from the cache from the lo-th up to the hi-th.
Clean ==
  /\ Loading
  /\ \E lo \in 1..(Len(bigints) + 1) :
       \E hi \in (lo - 1)..Len(bigints) :
         LET pool == {bigints[i] : i \in lo..hi}
             w    == clean_commodity_history(World, HistorySlots(World), pool)
         IN  Becomes(Ok(w), CleanRecord(World, pool))
  /\ setup' = 2
  /\ UNCHANGED <<nops, statics>>

NextClean ==
  \/ OpenCache
  \/ CachedPrice
  \/ ParsedPrice
  \/ Clean

SpecClean == Init /\ [][NextClean]_vars

(***************************************************************************)
(* A seventh client saves Amounts in any order: it sets a, b and c up and  *)
(* then, up to MaxWrites times, writes the quantity of one of them,        *)
(* negates one, assigns one to another or assigns 0 to one.  It stops at   *)
(* the first error.                                                        *)
(***************************************************************************)
\* Calls the saving client makes after setting up.
MaxWrites == 3

Saving == setup = Written /\ nops < MaxWrites /\ last.err = ""

\* x.write_quantity(out) for any of a, b and c.
WriteAny ==
  /\ Saving
  /\ \E x \in Slots :
       LET r == write_quantity(World, x, bigints_index)
       IN  /\ Becomes(r, BinRecord("write", x, World, r.err, r.bytes, 0, 0,
                                   bigints_index))
           /\ stream' = stream \o r.bytes
           /\ bigints_index' = r.index
           /\ bigints_count' = bigints_count + (r.index - bigints_index)
  /\ nops' = nops + 1
  /\ UNCHANGED <<setup, updater, data, bigints>>

\* x.negate() between two writes.
NegateWritten ==
  /\ Saving
  /\ \E x \in Slots :
       LET r == OpNegate(World, x)
       IN  Becomes(r, Record("negate", x, "-", <<>>, 0, World, r.err,
                             AllFalse, ""))
  /\ nops' = nops + 1
  /\ UNCHANGED <<setup, statics>>

\* x = y between two writes.
AssignWritten ==
  /\ Saving
  /\ \E x \in Slots :
       \E y \in Slots \ {x} :
         LET r == OpAssign(World, x, y)
         IN  Becomes(r, Record("=", x, y, <<>>, 0, World, r.err, AllFalse, ""))
  /\ nops' = nops + 1
  /\ UNCHANGED <<setup, statics>>

\* x = 0 between two writes: x lets go of its quantity.
ReleaseWritten ==
  /\ Saving
  /\ \E x \in Slots :
       LET r == OpAssignInt(World, x, 0)
       IN  Becomes(r, Record("=int", x, "-", <<>>, 0, World, r.err,
                             AllFalse, ""))
  /\ nops' = nops + 1
  /\ UNCHANGED <<setup, statics>>

NextWrite ==
  \/ SetupDefault
  \/ ShareParse
  \/ SetupCopy
  \/ WriteAny
  \/ NegateWritten
  \/ AssignWritten
  \/ ReleaseWritten

SpecWrite == Init /\ [][NextWrite]_vars

(***************************************************************************)
(* Properties.  Each speaks of the last step: Pre is the world the         *)
(* operation was called in, World the one it left.                         *)
(***************************************************************************)
Pre == last.pre

\* x and y held quantities in different commodities, neither the null one.
Mismatched(w, x, y) ==
  /\ Present(w, x)
  /\ Present(w, y)
  /\ w.amts[x].commodity # w.amts[y].commodity
  /\ w.amts[x].commodity # NullSymbol
  /\ w.amts[y].commodity # NullSymbol

\* C1: x += y and x -= y on two present quantities whose commodities are
\* different, neither being the null commodity, throw the commodity mismatch
\* error instead of returning a result.
C1_MismatchThrows ==
  (last.op \in {"+=", "-="} /\ Mismatched(Pre, last.x, last.y))
    => last.err = "CommodityMismatch"

C1_Witness ==
  /\ last.op = "-="
  /\ Mismatched(Pre, last.x, last.y)
  /\ last.err = "CommodityMismatch"

\* C2: an arithmetic operation that fails leaves its receiver as it was: the
\* same quantity cell with the same magnitude and scale, the same commodity,
\* and every cell's reference count as before the call.
C2_FailureLeavesReceiver ==
  (\/ last.err = "CommodityMismatch" /\ Mismatched(Pre, last.x, last.y)
   \/ last.err = "DivideByZero")
    => /\ amts[last.x] = Pre.amts[last.x]
       /\ cells = Pre.cells

\* C3: every one of x < y, x <= y, x > y, x >= y and x == y is false when x
\* and y hold quantities in different commodities, neither the null one.
C3_IncomparableAllFalse ==
  (last.op = "cmp" /\ Mismatched(Pre, last.x, last.y))
    => \A op \in OPS : last.cmp[op] = FALSE

C3_Witness ==
  /\ last.op = "cmp"
  /\ Mismatched(Pre, last.x, last.y)
  /\ Cell(Pre, last.x).val > 0
  /\ Cell(Pre, last.y).val < 0
  /\ \A op \in OPS : last.cmp[op] = FALSE

\* The sign of x's value, an absent quantity counting as zero.
SignOrZero(w, x) == IF Present(w, x) THEN Sgn(Cell(w, x).val) ELSE 0

\* C4: a comparison with an absent quantity on either side gives what the
\* comparison with zero gives, for each of <, <=, >, >= and ==, between two
\* Amounts and against the integer 0.
C4_AbsentComparesAsZero ==
  /\ (last.op = "cmp" /\ (~Present(Pre, last.x) \/ ~Present(Pre, last.y)))
       => \A op \in OPS :
            last.cmp[op]
              = IntCmp(op, SignOrZero(Pre, last.x), SignOrZero(Pre, last.y))
  /\ (last.op = "cmp0" /\ ~Present(Pre, last.x))
       => \A op \in OPS : last.cmp[op] = IntCmp(op, 0, 0)

\* C5: x /= y throws the divide by zero error exactly when y's quantity is
\* absent, whatever the dividend is.
C5_DivideByZeroIffAbsent ==
  last.op = "/="
    => (last.err = "DivideByZero" <=> ~Present(Pre, last.y))

\* r is v (at scale from) rounded to scale to, to the nearest with ties away
\* from zero.
IsNearest(v, from, to, r) ==
  2 * Abs(v - r * Pow10(from - to)) <= Pow10(from - to)

IsHalfAwayFromZero(v, from, to, r) ==
  /\ IsNearest(v, from, to, r)
  /\ 2 * Abs(v - r * Pow10(from - to)) = Pow10(from - to)
       => Abs(r * Pow10(from - to)) > Abs(v)

\* C6: rounding to a smaller scale gives the nearest value at that scale,
\* ties going away from zero for both signs, so that round(-v) = -round(v).
C6_RoundsHalfAwayFromZero ==
  (/\ last.op = "round"
   /\ Present(Pre, last.x)
   /\ Cell(Pre, last.x).prec > last.num)
    => LET c == Cell(Pre, last.x)
       IN  /\ IsHalfAwayFromZero(c.val, c.prec, last.num,
                                 Cell(World, last.x).val)
           /\ mpz_round(-c.val, c.prec, last.num)
                = -Cell(World, last.x).val

\* C7: x *= y on two present quantities gives x.mag * y.mag at scale
\* x.scale + y.scale, unless that scale exceeds the precision of x's commodity
\* plus 6: the product is then rounded to exactly that scale.  The scale of
\* the result is never more than precision + 6 and x keeps its commodity.
C7_ProductScaleCapped ==
  (last.op = "*=" /\ Present(Pre, last.x) /\ Present(Pre, last.y))
    => LET xc   == Cell(Pre, last.x)
           yc   == Cell(Pre, last.y)
           cap  == Precision(Pre, last.x) + Headroom
           full == xc.prec + yc.prec
           rc   == Cell(World, last.x)
       IN  /\ last.err = ""
           /\ amts[last.x].commodity = Pre.amts[last.x].commodity
           /\ comms = Pre.comms
           /\ rc.prec <= cap
           /\ IF full > cap
              THEN /\ rc.prec = cap
                   /\ IsNearest(xc.val * yc.val, full, cap, rc.val)
              ELSE /\ rc.prec = full
                   /\ rc.val = xc.val * yc.val

C7_Witness ==
  /\ last.op = "*="
  /\ Present(Pre, last.x)
  /\ Present(Pre, last.y)
  /\ Cell(Pre, last.x).prec + Cell(Pre, last.y).prec
       > Precision(Pre, last.x) + Headroom
  /\ Cell(World, last.x).prec = Precision(Pre, last.x) + Headroom
  /\ Cell(World, last.x).val # 0

\* x holds what "$10.00" parses to and y what "$3.00" parses to, the
\* precision of $ being 2.
TenByThree(w, x, y) ==
  /\ Present(w, x)
  /\ Present(w, y)
  /\ w.amts[x].commodity = "$"
  /\ w.amts[y].commodity = "$"
  /\ Cell(w, x).val = 1000
  /\ Cell(w, x).prec = 2
  /\ Cell(w, y).val = 300
  /\ Cell(w, y).prec = 2
  /\ w.comms["$"].precision = 2

\* C8 as stated: "$10.00" / "$3.00" has scale 6 and magnitude 3333333, and
\* prints as "$3.33".
C8_QuotientScaleSix ==
  (last.op = "/=" /\ TenByThree(Pre, last.x, last.y))
    => /\ Cell(World, last.x).prec = 6
       /\ Cell(World, last.x).val = 3333333
       /\ Format(World, last.x) = "$3.33"

\* C8, amended: "$10.00" / "$3.00" has scale 2 + 6 = 8 and magnitude
\* 333333333, and prints as "$3.33".
C8_QuotientScaleEight ==
  (last.op = "/=" /\ TenByThree(Pre, last.x, last.y))
    => /\ last.err = ""
       /\ Cell(World, last.x).prec = 8
       /\ Cell(World, last.x).val = 333333333
       /\ Format(World, last.x) = "$3.33"

C8_Witness ==
  /\ last.op = "/="
  /\ TenByThree(Pre, last.x, last.y)
  /\ Cell(World, last.x).val = 333333333

\* x and y held quantities in the same commodity.
SameCommodity(w, x, y) ==
  /\ Present(w, x)
  /\ Present(w, y)
  /\ w.amts[x].commodity = w.amts[y].commodity

\* x's magnitude upscaled to the scale prec.
Upscaled(w, x, prec) == Cell(w, x).val * Pow10(prec - Cell(w, x).prec)

\* The Amount y references the cell it referenced before the step, and the
\* cell has the magnitude and the scale it had.
OperandUntouched(y) ==
  /\ amts[y] = Pre.amts[y]
  /\ Cell(World, y).val = Cell(Pre, y).val
  /\ Cell(World, y).prec = Cell(Pre, y).prec

\* C9: x += y and x -= y on two present quantities of one commodity give
\* exactly x + y and x - y at the scale max(x.scale, y.scale), and leave the
\* magnitude and the scale of a distinct operand y as they were.
C9_SumExactAtMaxScale ==
  (last.op \in {"+=", "-="} /\ SameCommodity(Pre, last.x, last.y))
    => LET p    == Max(Cell(Pre, last.x).prec, Cell(Pre, last.y).prec)
           sign == IF last.op = "+=" THEN 1 ELSE -1
       IN  /\ last.err = ""
           /\ Cell(World, last.x).prec = p
           /\ Cell(World, last.x).val
                = Upscaled(Pre, last.x, p) + sign * Upscaled(Pre, last.y, p)
           /\ amts[last.x].commodity = Pre.amts[last.x].commodity
           /\ last.x # last.y => OperandUntouched(last.y)

C9_Witness ==
  /\ last.op = "+="
  /\ SameCommodity(Pre, last.x, last.y)
  /\ last.x # last.y
  /\ Cell(Pre, last.x).prec < Cell(Pre, last.y).prec
  /\ Cell(Pre, last.x).val # 0
  /\ Cell(Pre, last.y).val # 0
  /\ Cell(World, last.x).prec = Cell(Pre, last.y).prec

\* C10: a + absent and a - absent leave a as it was; absent + a has a's value
\* and commodity; absent - a has the negated value of a and a's commodity; a
\* itself is unchanged.
C10_AdditiveIdentity ==
  last.op \in {"+=", "-="}
    => /\ ~Present(Pre, last.y)
            => last.err = "" /\ amts = Pre.amts /\ cells = Pre.cells
       /\ (~Present(Pre, last.x) /\ Present(Pre, last.y))
            => LET sign == IF last.op = "+=" THEN 1 ELSE -1
               IN  /\ last.err = ""
                   /\ Present(World, last.x)
                   /\ Cell(World, last.x).val
                        = sign * Cell(Pre, last.y).val
                   /\ Cell(World, last.x).prec = Cell(Pre, last.y).prec
                   /\ amts[last.x].commodity = Pre.amts[last.y].commodity
                   /\ OperandUntouched(last.y)

C10_Witness ==
  /\ last.op = "-="
  /\ ~Present(Pre, last.x)
  /\ Present(Pre, last.y)
  /\ Cell(Pre, last.y).val > 0
  /\ Cell(World, last.x).val = -Cell(Pre, last.y).val

(***************************************************************************)
(* Properties of parsing and printing, of the parsing client (SpecParse).  *)
(***************************************************************************)
\* C11: after any sequence of public operations, a parse that aborts with an
\* error included, every Amount satisfies valid(): its quantity is present
\* exactly when its commodity is, and a present cell has a count of at least 1.
C11_AlwaysValid == \A x \in Slots : valid(World, x)

\* The registry as initialize_amounts() leaves it.
FreshRegistry(w) ==
  /\ DOMAIN w.comms = {NullSymbol}
  /\ w.comms[NullSymbol].precision = 0
  /\ w.comms[NullSymbol].flags = {}

\* C12: a text that parses cleanly under a fresh registry is printed back
\* exactly as it was written.
C12_RoundTrip ==
  (/\ last.op = "parse"
   /\ last.text \in CleanTexts
   /\ last.err = ""
   /\ FreshRegistry(Pre))
  => last.out = Join(last.text)

\* The positions of ch in the token, and the last of a set of positions.
PositionsOf(q, ch) == {i \in DOMAIN q : q[i] = ch}

LastOf(S) == CHOOSE i \in S : \A j \in S : j <= i

\* An optional sign, then digits with separators, each separator followed by a
\* digit.
WellFormedToken(q) ==
  LET b == IF q # <<>> /\ Head(q) = "-" THEN Tail(q) ELSE q
  IN  /\ \E i \in 1..Len(b) : IsDigit(b[i])
      /\ \A i \in 1..Len(b) :
           \/ IsDigit(b[i])
           \/ b[i] \in {",", "."} /\ i < Len(b) /\ IsDigit(b[i + 1])

\* The token without its commas and periods, read in base 10.
RECURSIVE Base10(_)
Base10(ds) ==
  IF ds = <<>> THEN 0
  ELSE Base10(SubSeq(ds, 1, Len(ds) - 1)) * 10 + DigitValue(ds[Len(ds)])

TokenMagnitude(q) ==
  IF Head(q) = "-" THEN 0 - Base10(SelectSeq(q, IsDigit))
  ELSE Base10(SelectSeq(q, IsDigit))

\* The scale and the separator flags the claim gives for a token.
TokenScale(q) ==
  LET commas  == PositionsOf(q, ",")
      periods == PositionsOf(q, ".")
  IN  IF commas # {} /\ periods # {}
      THEN IF LastOf(commas) > LastOf(periods)
           THEN Len(q) - LastOf(commas) ELSE Len(q) - LastOf(periods)
      ELSE IF commas # {} THEN Len(q) - LastOf(commas)
      ELSE IF periods # {} THEN Len(q) - LastOf(periods)
      ELSE 0

TokenFlags(q) ==
  LET commas  == PositionsOf(q, ",")
      periods == PositionsOf(q, ".")
  IN  IF commas # {} /\ periods # {}
      THEN IF LastOf(commas) > LastOf(periods)
           THEN {THOUSANDS, EUROPEAN} ELSE {THOUSANDS}
      ELSE IF commas # {} THEN {EUROPEAN}
      ELSE {}

\* The flags a commodity had in world w ({} when it was not yet known).
FlagsIn(w, sym) == IF sym \in DOMAIN w.comms THEN w.comms[sym].flags ELSE {}

PrecisionIn(w, sym) ==
  IF sym \in DOMAIN w.comms THEN w.comms[sym].precision ELSE 0

\* C13: a parse gives the quantity the scale that the last comma and the last
\* period of the numeric token decide, adds THOUSANDS and EUROPEAN to the
\* commodity as they decide, and the magnitude is the token without its commas
\* and periods ("$1,234.50": 123450 at scale 2; "1,234": scale 3).
C13_SeparatorsDecideScale ==
  (/\ last.op = "parse"
   /\ last.err = ""
   /\ WellFormedToken(Tokens(last.text).quant))
  => LET q   == Tokens(last.text).quant
         sym == amts[last.x].commodity
         c   == cells[amts[last.x].quantity]
     IN  /\ c.prec = TokenScale(q)
         /\ c.val = TokenMagnitude(q)
         /\ comms[sym].flags \ {SUFFIXED, SEPARATED}
              = (FlagsIn(Pre, sym) \cup TokenFlags(q)) \ {SUFFIXED, SEPARATED}
         /\ last.text = P_1_234_50 => c.val = 123450 /\ c.prec = 2
         /\ last.text = P_1_234 => c.prec = 3 /\ EUROPEAN \in comms[sym].flags

\* "1.234,50 EUR" read into a registry that knows EUR already.
C13_Witness ==
  /\ last.op = "parse"
  /\ last.err = ""
  /\ last.text = P_eur
  /\ "EUR" \in DOMAIN Pre.comms
  /\ cells[amts[last.x].quantity].val = 123450
  /\ cells[amts[last.x].quantity].prec = 2
  /\ {THOUSANDS, EUROPEAN} \subseteq comms["EUR"].flags

\* C14: a parse of a malformed numeric token (a lone sign, two adjacent
\* separators, no number) or of a quoted symbol without its closing quote
\* fails with a ParseError; it never completes normally.
C14_MalformedThrows ==
  (last.op = "parse" /\ last.text \in MalformedTexts)
  => last.err = "ParseError"

\* C15: no step lowers a commodity's precision or clears one of its style
\* flags, and right after a successful parse the commodity's precision is at
\* least the scale that was read.
C15_PrecisionOnlyGrows ==
  [][/\ \A s \in DOMAIN comms :
          /\ s \in DOMAIN comms'
          /\ comms'[s].precision >= comms[s].precision
          /\ comms[s].flags \subseteq comms'[s].flags
     /\ (last'.op = "parse" /\ last'.err = "")
          => comms'[amts'[last'.x].commodity].precision
               >= cells'[amts'[last'.x].quantity].prec]_vars

\* A parse of a smaller scale and a plainer style into a commodity that is
\* known with a larger precision and with flags.
C15_Witness ==
  /\ last.op = "parse"
  /\ last.err = ""
  /\ LET sym == amts[last.x].commodity
     IN  /\ sym \in DOMAIN Pre.comms
         /\ Pre.comms[sym].precision > cells[amts[last.x].quantity].prec
         /\ THOUSANDS \in Pre.comms[sym].flags
         /\ TokenFlags(Tokens(last.text).quant) = {}
         /\ comms[sym].precision = Pre.comms[sym].precision

(***************************************************************************)
(* Properties of valuation, of the valuing client (SpecValue).             *)
(***************************************************************************)
\* Whether value() is to leave the history alone: no quantity, or NOMARKET.
Unpriced(w, x) ==
  IF ~Present(w, x) THEN TRUE
  ELSE NOMARKET \in w.comms[w.amts[x].commodity].flags

\* The Amount returned is self: the same cell and the same commodity.
ReturnedSelf ==
  /\ amts["c"].quantity = Pre.amts[last.x].quantity
  /\ amts["c"].commodity = Pre.amts[last.x].commodity
  /\ Denotes(World, "c") = Denotes(Pre, last.x)

\* C16: value(moment) returns self when the quantity is absent or the
\* commodity is NOMARKET (the history is not consulted) and when the price
\* obtained is empty; for every present price, one of magnitude zero included,
\* it returns price * self rounded to the precision of self's commodity, in
\* the price's commodity.
C16_ValueIsPriceTimesSelf ==
  last.op = "value"
  => IF Unpriced(Pre, last.x) THEN ReturnedSelf /\ ~last.consulted
     ELSE IF ~last.price.present THEN ReturnedSelf
     ELSE LET self   == Denotes(Pre, last.x)
              res    == Denotes(World, "c")
              scale  == last.price.prec + self.prec
              target == Pre.comms[self.commodity].precision
          IN  /\ res.present
              /\ res.commodity = last.price.commodity
              /\ IF scale <= target
                 THEN res.prec = scale /\ res.val = last.price.val * self.val
                 ELSE /\ res.prec = target
                      /\ IsNearest(last.price.val * self.val, scale, target,
                                   res.val)

\* The latest of the dates that are not after moment (of all of them when
\* moment is 0); 0 when there is none.
LatestNotAfter(dates, moment) ==
  LET cand == IF moment = 0 THEN dates ELSE {d \in dates : d <= moment}
  IN  IF cand = {} THEN 0 ELSE CHOOSE d \in cand : \A e \in cand : e <= d

\* C17: commodity value(moment) selects the entry with the greatest date not
\* after moment (the newest when moment is 0) and none when every date is
\* later; a later nonzero moment never selects an older entry; the updater is
\* called with the selected date (0 for none) and the newest date of the
\* history (0 when it is empty).
C17_SelectsLatestNotAfter ==
  /\ \A sym \in DOMAIN comms : \A t1 \in Moments, t2 \in Moments :
       (t1 # 0 /\ t1 <= t2)
       => Walk(DOMAIN comms[sym].history, t2)
            >= Walk(DOMAIN comms[sym].history, t1)
  /\ (last.op = "value" /\ last.consulted)
     => LET sym   == Pre.amts[last.x].commodity
            m     == Pre.comms[sym].history
            dates == DOMAIN m
            sel   == LatestNotAfter(dates, last.num)
        IN  /\ last.age = sel
            /\ last.newest = LatestNotAfter(dates, 0)
            /\ last.called = (updater # "none")
            /\ updater # "clear"
               => last.price = IF sel = 0 THEN Denotes(Pre, "tmp")
                               ELSE Denotes(Pre, m[sel])

\* value() between two prices with an updater installed: the older price is
\* selected, the updater hears of it and of the newer date.
C17_Witness ==
  /\ last.op = "value"
  /\ last.consulted
  /\ last.called
  /\ Cardinality(DOMAIN Pre.comms[Pre.amts[last.x].commodity].history) = 2
  /\ last.age # 0
  /\ last.age < last.newest
  /\ last.num # 0
  /\ last.price.present

(***************************************************************************)
(* Properties of the binary cache, of the saving client (SpecBinary).      *)
(***************************************************************************)
\* The quantity of x in world w: absent, or its sign, magnitude and scale.
QuantityOf(w, x) ==
  IF Present(w, x)
  THEN [present |-> TRUE, val |-> Cell(w, x).val, prec |-> Cell(w, x).prec]
  ELSE [present |-> FALSE, val |-> 0, prec |-> 0]

\* The client wrote a, b and c and read ra, rb and rc back.
ReadBack ==
  /\ setup = Written
  /\ nops = Len(SlotOrder) + Len(ReadOrder)
  /\ last.err = ""

\* C18: writing a, b and c and reading the stream back consumes exactly the
\* bytes written and gives Amounts with the same sign, magnitude and scale;
\* two of them share a cell exactly when the written ones did, and a cell read
\* for two sharing Amounts has the count 2.
C18_BinaryRoundTrip ==
  ReadBack
  => /\ data = Len(stream) + 1
     /\ \A i \in 1..Len(SlotOrder) :
          QuantityOf(World, ReadOrder[i]) = QuantityOf(World, SlotOrder[i])
     /\ \A i \in 1..Len(SlotOrder), j \in 1..Len(SlotOrder) :
          (Present(World, SlotOrder[i]) /\ Present(World, SlotOrder[j]))
          => /\ (Quantity(World, ReadOrder[i]) = Quantity(World, ReadOrder[j]))
                  = (Quantity(World, SlotOrder[i])
                       = Quantity(World, SlotOrder[j]))
             /\ Cell(World, ReadOrder[i]).ref
                  = Cardinality({k \in 1..Len(SlotOrder) :
                                   Quantity(World, SlotOrder[k])
                                     = Quantity(World, SlotOrder[i])})

\* The Amounts written before x that hold x's cell, and the cells written
\* before x.
EarlierSharers(w, n) ==
  {k \in 1..(n - 1) : Quantity(w, SlotOrder[k]) = Quantity(w, SlotOrder[n])}

EarlierCells(w, n) ==
  {Quantity(w, SlotOrder[k]) : k \in 1..(n - 1)} \ {NULL}

\* C19: the first write of a cell gives it the next index (1, 2, ... in the
\* order of first writes) and emits tag 1, the length, the magnitude, the sign
\* and the scale; a later write of the cell emits the 5 bytes of tag 2 and
\* the index; an absent quantity emits the byte 0 and takes no index.
C19_WriteRecords ==
  (last.op = "write" /\ last.err = "")
  => LET n == nops
         x == SlotOrder[n]
     IN  IF ~Present(Pre, x)
         THEN last.bytes = <<0>> /\ bigints_index = last.before
         ELSE IF EarlierSharers(Pre, n) = {}
         THEN /\ Cell(World, x).index = Cardinality(EarlierCells(Pre, n)) + 1
              /\ bigints_index = Cell(World, x).index
              /\ LET mag == mpz_export(Abs(Cell(Pre, x).val))
                 IN  last.bytes = <<1>> \o Short(Len(mag)) \o mag
                                    \o <<IF Cell(Pre, x).val < 0 THEN 1 ELSE 0>>
                                    \o Short(Cell(Pre, x).prec)
         ELSE /\ Len(last.bytes) = 5
              /\ last.bytes = <<2>> \o UInt(Cell(World, x).index)
              /\ Cell(World, x).index = Cell(Pre, x).index
              /\ Cell(World, x).index
                   = Cell(World, SlotOrder[CHOOSE k \in EarlierSharers(Pre, n) :
                                             TRUE]).index
              /\ bigints_index = last.before

\* C20: read_quantity reports a BinaryFormat error and installs no quantity
\* when the tag is not 0, 1 or 2, and when the index of a tag-2 record is 0 or
\* greater than the number of cells read so far.
C20_BadRecordRejected ==
  (/\ last.op = "read"
   /\ \/ last.tag \notin {0, 1, 2}
      \/ last.tag = 2 /\ last.index \notin 1..last.before)
  => /\ last.err = "BinaryFormat"
     /\ amts[last.x].quantity = NULL

(***************************************************************************)
(* The registry, the null commodity, sharing and reference counts.         *)
(***************************************************************************)
\* A text made of quantity characters only: a number without a symbol.
BareNumber(text) ==
  /\ text # <<>>
  /\ \A i \in 1..Len(text) : IsQuantityChar(text[i])

\* C21: the registry always holds the null commodity under the empty symbol;
\* a lookup of a known symbol returns the commodity registered and changes
\* nothing; a creating lookup of an unknown symbol adds exactly that symbol
\* and returns it; a non-creating lookup of an unknown symbol returns NULL and
\* changes nothing; a number without a symbol parses under the null
\* commodity.
C21_RegistryOnePerSymbol ==
  /\ NullSymbol \in DOMAIN comms
  /\ last.op = "find" =>
       LET sym == Join(last.text)
       IN  IF sym \in DOMAIN Pre.comms
           THEN comms = Pre.comms /\ last.out = sym
           ELSE IF last.num = 1
           THEN /\ DOMAIN comms = DOMAIN Pre.comms \cup {sym}
                /\ \A s \in DOMAIN Pre.comms : comms[s] = Pre.comms[s]
                /\ last.out = sym
           ELSE comms = Pre.comms /\ last.out = NoCommodity
  /\ (last.op = "parse" /\ last.err = "" /\ BareNumber(last.text)) =>
       /\ amts[last.x].commodity = NullSymbol
       /\ DOMAIN comms = DOMAIN Pre.comms

\* A creating lookup of a symbol that an earlier parse registered with a
\* precision of its own.
C21_Witness ==
  /\ last.op = "find"
  /\ last.num = 1
  /\ Join(last.text) \in DOMAIN Pre.comms
  /\ Join(last.text) # NullSymbol
  /\ Pre.comms[Join(last.text)].precision > 0
  /\ last.out = Join(last.text)

\* x and y both hold a quantity and exactly one of them carries the null
\* commodity.
OneNullCommodity(w, x, y) ==
  /\ Present(w, x)
  /\ Present(w, y)
  /\ (w.amts[x].commodity = NullSymbol) # (w.amts[y].commodity = NullSymbol)

\* C22: x += y and x -= y on two present quantities of which exactly one
\* carries the null commodity do not throw the commodity mismatch error.
C22_NullCommodityCombines ==
  (last.op \in {"+=", "-="} /\ OneNullCommodity(Pre, last.x, last.y)) =>
    last.err # "CommodityMismatch"

\* Each step that changes the quantity it is applied to.
Mutating == {"+=", "-=", "*=", "/=", "negate", "round", "parse", "=int"}

\* b held the cell of x before the step.
SharedWith(w, x, b) ==
  /\ b # x
  /\ Present(w, x)
  /\ Quantity(w, b) = Quantity(w, x)

\* C23: a step that changes the quantity of x leaves every Amount that shared
\* the cell of x with the cell, the magnitude and the scale it had; the cell
\* of true keeps magnitude 1 and scale 0.
C23_CopyOnWrite ==
  /\ cells[TrueCell].val = 1
  /\ cells[TrueCell].prec = 0
  /\ last.op \in Mutating =>
       \A b \in Slots :
         SharedWith(Pre, last.x, b) =>
           /\ amts[b].quantity = Pre.amts[b].quantity
           /\ Cell(World, b).val = Cell(Pre, b).val
           /\ Cell(World, b).prec = Cell(Pre, b).prec
           /\ Cell(World, b).live

\* x shared its cell and the step gave x another magnitude or scale.
C23_Witness ==
  /\ last.op \in Mutating
  /\ last.err = ""
  /\ \E b \in Slots : SharedWith(Pre, last.x, b)
  /\ Present(World, last.x)
  /\ \/ Cell(World, last.x).val # Cell(Pre, last.x).val
     \/ Cell(World, last.x).prec # Cell(Pre, last.x).prec

\* The Amount objects whose quantity is the cell q.
Holders(w, q) == {x \in DOMAIN w.amts : w.amts[x].quantity = q}

\* The count true_value is constructed with, which no Amount accounts for.
Pin(q) == IF q = TrueCell THEN 1 ELSE 0

\* C24: the count of every live cell is the number of Amounts that reference
\* it (one more for the cell of true); a cell is destroyed exactly when its
\* count is zero; no Amount references a destroyed cell; the cell of true is
\* never destroyed.
C24_CountsAccurate ==
  /\ \A q \in 1..Len(cells) :
       /\ cells[q].live =>
            cells[q].ref = Cardinality(Holders(World, q)) + Pin(q)
       /\ cells[q].live <=> cells[q].ref > 0
       /\ ~cells[q].live => Holders(World, q) = {}
  /\ cells[TrueCell].live

\* An assignment destroyed a cell while another cell is shared.
C24_Witness ==
  /\ last.op \in {"=", "=int", "=bool", "parse"}
  /\ \E q \in 1..Len(Pre.cells) : Pre.cells[q].live /\ ~cells[q].live
  /\ \E q \in 1..Len(cells) : q # TrueCell /\ cells[q].ref >= 2

\* C27: x = n for an integer n other than 0 leaves x with the magnitude n at
\* scale 0 under the null commodity, whatever x held before; x = 0 leaves x
\* absent.
C27_IntegerAssignment ==
  last.op = "=int" =>
    IF last.num # 0
    THEN /\ Present(World, last.x)
         /\ Cell(World, last.x).val = last.num
         /\ Cell(World, last.x).prec = 0
         /\ amts[last.x].commodity = NullSymbol
    ELSE ~Present(World, last.x)

\* C28: x /= y with a divisor that is present and has the magnitude zero
\* returns a result or throws an error; the process does not end inside the
\* integer division.
C28_NoDivisionByZeroMagnitude ==
  (/\ last.op = "/="
   /\ Present(Pre, last.x)
   /\ Present(Pre, last.y)
   /\ Cell(Pre, last.y).val = 0)
  => last.err \in {"", "DivideByZero"}

\* x op y where y is a copy of x made for the call.
WithSeparateCopy(w, op, x) ==
  LET w1 == _copy(w, "amt", x)
  IN  CASE op = "+=" -> OpAdd(w1, x, "amt").w
        [] op = "-=" -> OpSub(w1, x, "amt").w
        [] op = "*=" -> OpMul(w1, x, "amt").w
        [] op = "/=" -> OpDiv(w1, x, "amt").w

\* C29: for an Amount a that is present and not zero, a += a, a -= a, a *= a
\* and a /= a leave a with the magnitude and scale that the operation gives
\* with a separate copy of a as its operand; a /= a denotes 1.
C29_AliasSafe ==
  (/\ last.op \in {"+=", "-=", "*=", "/="}
   /\ last.x = last.y
   /\ Present(Pre, last.x)
   /\ Cell(Pre, last.x).val # 0
   /\ last.err = "")
  => /\ QuantityOf(World, last.x)
          = QuantityOf(WithSeparateCopy(Pre, last.op, last.x), last.x)
     /\ last.op = "/=" =>
          Cell(World, last.x).val = Pow10(Cell(World, last.x).prec)

(***************************************************************************)
(* Properties of the prices read from the cache (SpecClean).               *)
(***************************************************************************)
\* The prices that referenced the cell q.
PricesAt(w, q) == {h \in HistorySlots(w) : w.amts[h].quantity = q}

\* C25: after clean_commodity_history no price of a history references a
\* cell of the pool; each price that did now has a new cell of its own (not
\* bulk-allocated, count 1, index 0) with the magnitude and the scale it had,
\* and keeps its commodity; the count of each cell of the pool has dropped by
\* one for each such price and the cell is destroyed when it reached zero;
\* every other price is as it was.
C25_CleanDetachesPool ==
  last.op = "clean" =>
    /\ HistorySlots(World) = HistorySlots(Pre)
    /\ \A h \in HistorySlots(Pre) :
         IF Quantity(Pre, h) \in last.pool
         THEN /\ Quantity(World, h) \notin last.pool
              /\ Quantity(World, h) > Len(Pre.cells)
              /\ Holders(World, Quantity(World, h)) = {h}
              /\ Cell(World, h) = [val |-> Cell(Pre, h).val,
                                   prec |-> Cell(Pre, h).prec,
                                   ref |-> 1, bulk |-> FALSE, index |-> 0,
                                   live |-> TRUE]
              /\ amts[h].commodity = Pre.amts[h].commodity
         ELSE /\ amts[h] = Pre.amts[h]
              /\ Present(Pre, h) => Cell(World, h) = Cell(Pre, h)
    /\ \A q \in last.pool :
         /\ cells[q].ref = Pre.cells[q].ref - Cardinality(PricesAt(Pre, q))
         /\ cells[q].val = Pre.cells[q].val
         /\ cells[q].live <=> (Pre.cells[q].live /\ cells[q].ref > 0)

\* The pool held a cell that two prices shared and c kept; a third price lay
\* outside the pool.
C25_Witness ==
  /\ last.op = "clean"
  /\ \E q \in last.pool :
       /\ Cardinality(PricesAt(Pre, q)) = 2
       /\ Pre.cells[q].ref = 3
       /\ cells[q].ref = 1
  /\ \E h \in HistorySlots(Pre) :
       /\ Present(Pre, h)
       /\ Quantity(Pre, h) \notin last.pool
       /\ Quantity(World, h) = Quantity(Pre, h)

(***************************************************************************)
(* Properties of writes in any order (SpecWrite).                          *)
(***************************************************************************)
\* The magnitude and scale of each tag-1 record of the stream from pos on, in
\* the order of the records (the order of the indexes).
RECURSIVE FirstRecords(_, _)
FirstRecords(bytes, pos) ==
  IF pos > Len(bytes) THEN <<>>
  ELSE IF bytes[pos] = 0 THEN FirstRecords(bytes, pos + 1)
  ELSE IF bytes[pos] = 2 THEN FirstRecords(bytes, pos + 5)
  ELSE LET len == ReadShort(bytes[pos + 1], bytes[pos + 2])
           mag == mpz_import(bytes, 0, pos + 3, len \div 2, 0)
       IN  <<[val |-> IF bytes[pos + 3 + len] # 0 THEN 0 - mag ELSE mag,
              prec |-> ReadShort(bytes[pos + 4 + len], bytes[pos + 5 + len])]>>
             \o FirstRecords(bytes, pos + 6 + len)

\* C26: when write_quantity meets a cell that already has an index, the count
\* of the cell is greater than 1 (the assertion holds and the write returns),
\* and the record that the index designates holds the magnitude and the scale
\* that the cell has at this write.
C26_IndexedCellIsShared ==
  (last.op = "write" /\ Present(Pre, last.x) /\ Cell(Pre, last.x).index # 0)
  => /\ Cell(Pre, last.x).ref > 1
     /\ last.err = ""
     /\ LET rec == FirstRecords(stream, 1)[Cell(Pre, last.x).index]
        IN  /\ rec.val = Cell(Pre, last.x).val
            /\ rec.prec = Cell(Pre, last.x).prec

====
